---- MODULE Spec2Model ----
(***************************************************************************)
(* Arbitrage bot: the sequential executor of arbitrage_bot.py together     *)
(* with the circuit breaker of safety_manager.py, and the concurrent       *)
(* two-leg executor of trading_engine.py.                                  *)
(*                                                                         *)
(* Money is counted in thousandths of the model's currency unit, so that   *)
(* the per-mille trading fee stays an integer.  Prices and quantities are  *)
(* small integers; a missing value (Python None) is the number 0 for a     *)
(* price and FALSE for an order id.                                        *)
(***************************************************************************)
EXTENDS Integers, Naturals, Sequences, FiniteSets, TLC

\* ------------------------------------------------------------------ bounds
\* number of trades the executor may create in one run
MaxTrades == 2
\* number of trades the two-leg executor of trading_engine.py may create in one run
MaxEngineTrades == 1
\* number of record_profit / record_loss calls made on a bare SafetyManager in one run
MaxRecords == 5
\* scan cycles of the price monitor per run
MaxScans == 2
\* passes of the controller loop per run
MaxPasses == 2
\* _pause_trading calls made from outside the SafetyManager per run
MaxPauses == 2
\* record_trade_result calls per run
MaxTradeResults == 2

\* ------------------------------------------------------ program constants
\* thousandths per currency unit (scaling of the float arithmetic)
Milli == 1000
\* millionths: the scanner's order-book quantities and the engine's slippage fractions
Micro == 1000000
\* RISK_CONFIG["max_daily_loss_usd"] (read from the environment, config.py:47);
\* the model runs the configuration MAX_DAILY_LOSS_USD=5
MaxDailyLossUsd == 5
\* RISK_CONFIG["max_consecutive_losses"], default 3
MaxConsecutiveLosses == 3
\* ExchangeManager.get_exchange_trading_fee: default fee 0.001, in per mille
TradingFeePerMille == 1

\* ------------------------------------------------------------ input sets
\* opportunity.buy_price as emitted by the scanner (0: the invalid price)
OppBuyPrices == {0, 2}
\* opportunity.sell_price
OppSellPrices == {3}
\* max_quantity of an opportunity found on a thin book
OppMaxQuantities == {1}
\* ticker["ask"] returned by fetch_ticker; 0 stands for a missing ticker/ask
TickerAsks == {0, 2, 6}
\* results of ExchangeManager.place_order as seen by the caller
PlaceResults == {"ok", "noprice", "none", "raise"}
\* results of ExchangeManager.fetch_order as seen by the caller
FetchResults == {"ok", "none", "nullprice"}
\* profit_usd values passed to record_profit (thousandths; a completed trade can lose)
RecordedProfits == {-3000, 2000}
\* loss_usd values passed to record_loss (thousandths; 0 when no buy price was known)
RecordedLosses == {0, -2000, -6000}
\* get_dynamic_trade_size results, within [min_trade_usd, 2 x base_trade_usd]
DynamicSizesUsd == {4}

TradeIds == 1..MaxTrades
\* ids the two-leg executor hands out
EngineTradeIds == {t \in TradeIds : t <= MaxEngineTrades}

VARIABLES
    component,                \* which executor this run exercises
    safety_attributes,        \* SafetyManager: the attributes its methods read that __init__ leaves unassigned
    safety_check,             \* the last call of check_safety_before_trade: its opportunity and its outcome
    day_changed,              \* the wall-clock day differs from the day of SafetyManager.last_trade_time
    scored,                   \* the last call of _score_opportunity: its arguments and its result
    circuit_breaker_enabled,  \* risk_config["circuit_breaker_enabled"]
    safety_manager,           \* SafetyManager: daily_profit_loss, consecutive_losses, circuit_breaker_active
    trading_enabled,          \* TradingEngine.trading_enabled
    enable_trading_returned,  \* what the last enable_trading call returned: "none", "True" or "False"
    total_trades,             \* TradingEngine.total_trades
    successful_trades,        \* TradingEngine.successful_trades
    total_profit_usd,         \* TradingEngine.total_profit_usd
    trades,                   \* Trade objects by id, with the position of the task running each
    active_trades,            \* TradingEngine.active_trades (ids)
    completed_trades,         \* TradingEngine.completed_trades (ids, in order)
    venue_orders,             \* orders accepted by the venues: <<trade id, side>>
    placed_amount,            \* quantity of each order accepted by a venue, by trade id and side
    shutdown,                 \* ArbitrageBot.shutdown_event
    recorded,                 \* history: record_profit / record_loss calls made on the bare SafetyManager
    breaker_alert,            \* a call denied by the circuit breaker has created its alert
    notified,                 \* history: record_profit / record_loss calls made per trade
    loss_run,                 \* history: record_loss calls since the last record_profit or manual reset
    reset_called,             \* history: deactivate_circuit_breaker ran since the P&L last fell below the limit
    status_log,               \* history: every status assigned to each trade, in order
    circuit_breaker_triggered,   \* trading_engine.TradingEngine.circuit_breaker_triggered
    daily_stats,                 \* trading_engine.TradingEngine.daily_stats
    emergency_cancel,            \* the _emergency_cancel_all_orders task: "idle" or "scheduled"
    order_book_depth_configured, \* TRADING_CONFIG has the key "order_book_depth"
    trading_fees,             \* ExchangeManager.trading_fees by venue, per mille
    min_profit_threshold,     \* TRADING_CONFIG["min_profit_threshold"], per mille
    tickers,                  \* PriceMonitor.tickers by venue
    opportunities,            \* PriceMonitor.opportunities
    scan_cycles,              \* iterations of start_monitoring so far
    last_scan_time,           \* PriceMonitor.last_scan_time: the cycle that last completed, 0 before any
    controller_passes,        \* iterations of the main arbitrage loop so far
    pass_queue,               \* the controller's list copy: opportunities not yet dispatched in this pass
    dispatched,               \* ids of the opportunities handed to execute_arbitrage_trade, in order
    levels_delivered          \* has market data carrying an order-book level been delivered so far

vars == <<component, safety_attributes, safety_check, day_changed, scored, circuit_breaker_enabled, safety_manager, trading_enabled,
          enable_trading_returned,
          total_trades, successful_trades, total_profit_usd, trades,
          active_trades, completed_trades, venue_orders, placed_amount, shutdown,
          recorded, breaker_alert, notified, loss_run, reset_called, status_log,
          circuit_breaker_triggered, daily_stats, emergency_cancel,
          order_book_depth_configured, trading_fees, min_profit_threshold,
          tickers, opportunities, scan_cycles, last_scan_time, controller_passes,
          pass_queue, dispatched, levels_delivered>>

\* state of trading_engine.TradingEngine that arbitrage_bot.py never touches
engineVars == <<circuit_breaker_triggered, daily_stats, emergency_cancel,
                order_book_depth_configured>>

\* state of arbitrage_bot.py and safety_manager.py that trading_engine.py never touches
botVars == <<placed_amount, circuit_breaker_enabled, safety_manager, total_trades, successful_trades,
             total_profit_usd, shutdown, recorded, breaker_alert, notified, loss_run,
             reset_called>>

\* state of price_monitor.py and of the controller loop that the executors never touch
scannerVars == <<trading_fees, min_profit_threshold, tickers, opportunities,
                 scan_cycles, last_scan_time, controller_passes, pass_queue,
                 dispatched, levels_delivered>>

\* exchanges_config: the venues, in the order of the scan loops
Venues == <<"A", "B", "C">>

VenueSet == {Venues[i] : i \in 1..Len(Venues)}

\* no market data for the symbol on a venue
NoTicker == [bid |-> 0, ask |-> 0, bids |-> <<>>, asks |-> <<>>]

\* attributes of SafetyManager that __init__ does not assign: reading one
\* before a method has assigned it raises AttributeError. The fields hold the
\* value of an attribute once it is in "assigned"; daily_pnl, consecutive_losses
\* and total_trades_today are the fields of self.metrics. tasks are the tasks
\* made by asyncio.create_task that have not run yet, sleeping the coroutines
\* inside the sleep of _pause_trading, oldest first. results, pauses and
\* paused_by are history: record_trade_result calls that got past their first
\* line, _pause_trading calls, and the call that last set trading_paused.
SafetyAttributesInit ==
    [assigned |-> {},
     emergency_stop_active |-> FALSE,
     trading_paused |-> FALSE,
     restricted_pairs |-> {},
     restricted_exchanges |-> {},
     total_trades_today |-> 0,
     daily_pnl |-> 0,
     consecutive_losses |-> 0,
     tasks |-> <<>>,
     sleeping |-> <<>>,
     results |-> 0,
     pauses |-> 0,
     paused_by |-> 0]

NotChecked == [called |-> FALSE]

\* _score_opportunity has not been called
NotScored == [called |-> FALSE]

\* PriceMonitor.__init__ and the controller before its first pass
ScannerIdle ==
    /\ trading_fees = [v \in VenueSet |-> TradingFeePerMille]
    /\ min_profit_threshold = 1
    /\ tickers = [v \in VenueSet |-> NoTicker]
    /\ opportunities = <<>>
    /\ scan_cycles = 0
    /\ last_scan_time = 0
    /\ controller_passes = 0
    /\ pass_queue = <<>>
    /\ dispatched = <<>>
    /\ levels_delivered = FALSE

\* TradingEngine.__init__ of trading_engine.py: daily_stats
DailyStatsInit ==
    [trades_executed |-> 0, total_profit_usd |-> 0, total_loss_usd |-> 0,
     successful_trades |-> 0, failed_trades |-> 0]

\* ------------------------------------------------------------ SafetyManager

Abs(x) == IF x < 0 THEN -x ELSE x

\* SafetyManager.__init__
SafetyManagerInit ==
    [daily_profit_loss |-> 0, consecutive_losses |-> 0, circuit_breaker_active |-> FALSE]

\* SafetyManager._activate_circuit_breaker
activate_circuit_breaker(sm) ==
    IF ~sm.circuit_breaker_active
    THEN [sm EXCEPT !.circuit_breaker_active = TRUE]
    ELSE sm

\* a _check_risk_limits that trips one loss late
check_risk_limits_late(sm, enabled) ==
    IF enabled
    THEN IF sm.daily_profit_loss < -(MaxDailyLossUsd * Milli)
         THEN activate_circuit_breaker(sm)
         ELSE IF sm.consecutive_losses > MaxConsecutiveLosses
              THEN activate_circuit_breaker(sm)
              ELSE sm
    ELSE sm

\* SafetyManager._check_risk_limits
check_risk_limits(sm, enabled) ==
    IF enabled
    THEN IF sm.daily_profit_loss < -(MaxDailyLossUsd * Milli)
         THEN activate_circuit_breaker(sm)
         ELSE IF sm.consecutive_losses >= MaxConsecutiveLosses
              THEN activate_circuit_breaker(sm)
              ELSE sm
    ELSE sm

\* a record_profit that also clears the breaker
record_profit_clears_breaker(sm, profit_usd) ==
    [sm EXCEPT !.daily_profit_loss = @ + profit_usd,
               !.consecutive_losses = 0,
               !.circuit_breaker_active = FALSE]

\* SafetyManager.record_profit
record_profit(sm, profit_usd) ==
    [sm EXCEPT !.daily_profit_loss = @ + profit_usd,
               !.consecutive_losses = 0]

\* SafetyManager.record_loss
record_loss(sm, loss_usd, enabled) ==
    check_risk_limits(
        [sm EXCEPT !.daily_profit_loss = @ - Abs(loss_usd),
                   !.consecutive_losses = @ + 1],
        enabled)

\* SafetyManager.deactivate_circuit_breaker
deactivate_circuit_breaker(sm) ==
    IF sm.circuit_breaker_active
    THEN [sm EXCEPT !.circuit_breaker_active = FALSE, !.consecutive_losses = 0]
    ELSE sm

\* SafetyManager.is_circuit_breaker_active
is_circuit_breaker_active(sm) == sm.circuit_breaker_active

\* ------------------------------------------- arbitrage_bot.TradingEngine

\* the awaits of execute_arbitrage_trade, where a task can be suspended
AwaitPoints == {"fetch_ticker", "place_buy", "fetch_buy", "place_sell", "fetch_sell"}

\* a slot of the trade table no Trade object was created for yet
NoTrade ==
    [pc |-> "none", status |-> "NONE", amount |-> 0, opp_buy_price |-> 0,
     opp_sell_price |-> 0, opp_max_quantity |-> 0, buy_order_id |-> FALSE,
     sell_order_id |-> FALSE, buy_price |-> 0, sell_price |-> 0,
     actual_profit_usd |-> 0]

\* Trade(id, opportunity, amount): the dataclass defaults
NewTrade(buy, sell, max_quantity, amount) ==
    [pc |-> "fetch_ticker", status |-> "PENDING", amount |-> amount,
     opp_buy_price |-> buy, opp_sell_price |-> sell, opp_max_quantity |-> max_quantity,
     buy_order_id |-> FALSE, sell_order_id |-> FALSE,
     buy_price |-> 0, sell_price |-> 0, actual_profit_usd |-> 0]

\* execute_arbitrage_trade: the USD size converted to base currency at the buy price
trade_amount(usd, buy_price) == usd \div buy_price

\* a gate that forgets the circuit breaker
MayTrade_flag_only(enabled, sm) == enabled

\* the gate at the head of execute_arbitrage_trade: may a Trade be created
MayTrade(enabled, sm) == enabled /\ ~is_circuit_breaker_active(sm)

\* TRADING_CONFIG["max_trade_amount_usd"] and the cap of place_order: MAX_TRADE_AMOUNT_USD=100
MaxTradeAmountUsd == 100

\* market['limits']['notional']['min'] of the venues, in USD
MinNotionalUsd == 5

\* ExchangeManager.place_order: the quantity sent to the venue for (amount, price);
\* quantities are whole units, so round_up rounds to the next integer
place_order_amount(amount, price) ==
    IF amount * price < MinNotionalUsd
    THEN LET adjusted_amount == (MinNotionalUsd + price - 1) \div price
             max_amount == MaxTradeAmountUsd \div price
         IN  IF adjusted_amount > max_amount THEN max_amount ELSE adjusted_amount
    ELSE amount

\* ExchangeManager.place_order: the final check raises ValueError
place_order_raises(amount, price) ==
    place_order_amount(amount, price) * price < MinNotionalUsd

\* revenue - cost - total_fees of execute_arbitrage_trade, in thousandths
ActualProfit(amount, buy, sell) ==
    amount * sell * Milli - amount * buy * Milli
      - (amount * buy * TradingFeePerMille + amount * sell * TradingFeePerMille)

\* potential_loss of the except branch, in thousandths
PotentialLoss(amount, buy) == IF buy # 0 THEN -(amount * buy * Milli) ELSE 0

\* history of the P&L limit: a manual reset counts while the P&L stays below the limit
Breached(sm) == sm.daily_profit_loss < -(MaxDailyLossUsd * Milli)

ResetAfter(old, new) == Breached(old) /\ Breached(new) /\ reset_called

\* the finally clause: the trade joins the history and leaves active_trades
Finally(t) ==
    /\ completed_trades' = Append(completed_trades, t)
    /\ active_trades' = active_trades \ {t}

\* the except branch followed by the finally clause
FailTrade(t) ==
    LET tr == trades[t]
        sm == record_loss(safety_manager, PotentialLoss(tr.amount, tr.buy_price),
                          circuit_breaker_enabled)
    IN  /\ trades' = [trades EXCEPT ![t].status = "FAILED", ![t].pc = "done"]
        /\ status_log' = [status_log EXCEPT ![t] = Append(@, "FAILED")]
        /\ safety_manager' = sm
        /\ notified' = [notified EXCEPT ![t] = @ + 1]
        /\ loss_run' = loss_run + 1
        /\ reset_called' = ResetAfter(safety_manager, sm)
        /\ Finally(t)
        /\ UNCHANGED <<successful_trades, total_profit_usd>>

\* step 3 of the try block (profit, statistics, record_profit) and the finally clause
CompleteTrade(t, sell_id, sell_price) ==
    LET tr == trades[t]
        profit == ActualProfit(tr.amount, tr.buy_price, sell_price)
        sm == record_profit(safety_manager, profit)
    IN  /\ trades' = [trades EXCEPT ![t].sell_order_id = sell_id,
                                    ![t].sell_price = sell_price,
                                    ![t].actual_profit_usd = profit,
                                    ![t].status = "COMPLETED",
                                    ![t].pc = "done"]
        /\ status_log' = [status_log EXCEPT ![t] = @ \o <<"SELL_FILLED", "COMPLETED">>]
        /\ successful_trades' = successful_trades + 1
        /\ total_profit_usd' = total_profit_usd + profit
        /\ safety_manager' = sm
        /\ notified' = [notified EXCEPT ![t] = @ + 1]
        /\ loss_run' = 0
        /\ reset_called' = ResetAfter(safety_manager, sm)
        /\ Finally(t)

\* the buy order object is valid: ids and price recorded, on to the sell leg
BuyAccepted(t) ==
    /\ trades' = [trades EXCEPT ![t].buy_order_id = TRUE,
                                ![t].buy_price = trades[t].opp_buy_price,
                                ![t].status = "EXECUTING_SELL",
                                ![t].pc = "place_sell"]
    /\ status_log' = [status_log EXCEPT ![t] = @ \o <<"BUY_FILLED", "EXECUTING_SELL">>]
    /\ UNCHANGED <<safety_manager, successful_trades, total_profit_usd,
                   active_trades, completed_trades, notified, loss_run, reset_called>>

\* execute_arbitrage_trade up to its first await
ExecuteArbitrageTrade(buy, sell, max_quantity, usd) ==
    /\ component = "bot"
    /\ ~shutdown
    /\ (MayTrade(trading_enabled, safety_manager) /\ buy > 0) => total_trades < MaxTrades
    /\ IF MayTrade(trading_enabled, safety_manager) /\ buy > 0
       THEN LET t == total_trades + 1 IN
            /\ UNCHANGED breaker_alert
            /\ trades' = [trades EXCEPT ![t] = NewTrade(buy, sell, max_quantity, trade_amount(usd, buy))]
            /\ status_log' = [status_log EXCEPT ![t] = <<"PENDING">>]
            /\ active_trades' = active_trades \cup {t}
            /\ total_trades' = total_trades + 1
       ELSE /\ breaker_alert' = (breaker_alert \/ (trading_enabled
                                          /\ is_circuit_breaker_active(safety_manager)))
            /\ UNCHANGED <<trades, status_log, active_trades, total_trades>>
    /\ UNCHANGED <<component, safety_attributes, safety_check, day_changed, scored, scannerVars, enable_trading_returned, engineVars, placed_amount, recorded, circuit_breaker_enabled, safety_manager, trading_enabled,
                   successful_trades, total_profit_usd, completed_trades,
                   venue_orders, shutdown, notified, loss_run, reset_called>>

\* await fetch_ticker returns
FetchTickerReturns(t, ask) ==
    /\ component = "bot"
    /\ ~shutdown
    /\ trades[t].pc = "fetch_ticker"
    /\ IF ask = 0
       THEN FailTrade(t)
       ELSE /\ trades' = [trades EXCEPT ![t].opp_buy_price = ask,
                                        ![t].status = "EXECUTING_BUY",
                                        ![t].pc = "place_buy"]
            /\ status_log' = [status_log EXCEPT ![t] = Append(@, "EXECUTING_BUY")]
            /\ UNCHANGED <<safety_manager, successful_trades, total_profit_usd,
                           active_trades, completed_trades, notified, loss_run,
                           reset_called>>
    /\ UNCHANGED <<component, safety_attributes, safety_check, day_changed, scored, scannerVars, enable_trading_returned, engineVars, placed_amount, recorded, circuit_breaker_enabled, trading_enabled, total_trades,
                   venue_orders, shutdown, breaker_alert>>

\* await place_order (buy leg) returns
PlaceBuyReturns(t, res) ==
    /\ component = "bot"
    /\ ~shutdown
    /\ trades[t].pc = "place_buy"
    /\ place_order_raises(trades[t].amount, trades[t].opp_buy_price) => res = "raise"
    /\ venue_orders' = IF res \in {"ok", "noprice"}
                       THEN venue_orders \cup {<<t, "buy">>}
                       ELSE venue_orders
    /\ placed_amount' = IF res \in {"ok", "noprice"}
                        THEN [placed_amount EXCEPT ![t].buy =
                                 place_order_amount(trades[t].amount,
                                                    trades[t].opp_buy_price)]
                        ELSE placed_amount
    /\ CASE res = "ok" -> BuyAccepted(t)
         [] res = "noprice" ->
              /\ trades' = [trades EXCEPT ![t].pc = "fetch_buy"]
              /\ UNCHANGED <<status_log, safety_manager, successful_trades,
                             total_profit_usd, active_trades, completed_trades,
                             notified, loss_run, reset_called>>
         [] OTHER -> FailTrade(t)
    /\ UNCHANGED <<component, safety_attributes, safety_check, day_changed, scored, scannerVars, enable_trading_returned, engineVars, recorded, circuit_breaker_enabled, trading_enabled, total_trades,
                   shutdown, breaker_alert>>

\* await fetch_order (buy leg) returns
FetchBuyReturns(t, res) ==
    /\ component = "bot"
    /\ ~shutdown
    /\ trades[t].pc = "fetch_buy"
    /\ IF res = "ok" THEN BuyAccepted(t) ELSE FailTrade(t)
    /\ UNCHANGED <<component, safety_attributes, safety_check, day_changed, scored, scannerVars, enable_trading_returned, engineVars, placed_amount, recorded, circuit_breaker_enabled, trading_enabled, total_trades,
                   venue_orders, shutdown, breaker_alert>>

\* await place_order (sell leg) returns
PlaceSellReturns(t, res) ==
    /\ component = "bot"
    /\ ~shutdown
    /\ trades[t].pc = "place_sell"
    /\ place_order_raises(trades[t].amount, trades[t].opp_sell_price) => res = "raise"
    /\ venue_orders' = IF res \in {"ok", "noprice"}
                       THEN venue_orders \cup {<<t, "sell">>}
                       ELSE venue_orders
    /\ placed_amount' = IF res \in {"ok", "noprice"}
                        THEN [placed_amount EXCEPT ![t].sell =
                                 place_order_amount(trades[t].amount,
                                                    trades[t].opp_sell_price)]
                        ELSE placed_amount
    /\ CASE res = "ok" -> CompleteTrade(t, TRUE, trades[t].opp_sell_price)
         [] res = "none" -> CompleteTrade(t, FALSE, trades[t].opp_sell_price)
         [] res = "noprice" ->
              /\ trades' = [trades EXCEPT ![t].pc = "fetch_sell"]
              /\ UNCHANGED <<status_log, safety_manager, successful_trades,
                             total_profit_usd, active_trades, completed_trades,
                             notified, loss_run, reset_called>>
         [] OTHER -> FailTrade(t)
    /\ UNCHANGED <<component, safety_attributes, safety_check, day_changed, scored, scannerVars, enable_trading_returned, engineVars, recorded, circuit_breaker_enabled, trading_enabled, total_trades,
                   shutdown, breaker_alert>>

\* await fetch_order (sell leg) returns
FetchSellReturns(t, res) ==
    /\ component = "bot"
    /\ ~shutdown
    /\ trades[t].pc = "fetch_sell"
    /\ CASE res = "ok" -> CompleteTrade(t, TRUE, trades[t].opp_sell_price)
         [] res = "none" -> CompleteTrade(t, FALSE, trades[t].opp_sell_price)
         [] OTHER -> FailTrade(t)
    /\ UNCHANGED <<component, safety_attributes, safety_check, day_changed, scored, scannerVars, enable_trading_returned, engineVars, placed_amount, recorded, circuit_breaker_enabled, trading_enabled, total_trades,
                   venue_orders, shutdown, breaker_alert>>

\* ArbitrageBot.get_status (the bot of the model is running until stop())
get_status ==
    [is_running |-> ~shutdown,
     trading_enabled |-> trading_enabled,
     circuit_breaker_active |-> is_circuit_breaker_active(safety_manager),
     active_trades_count |-> Cardinality(active_trades)]

\* an enable_trading that ignores the circuit breaker
enable_trading_unchecked(enabled, sm) ==
    [trading_enabled |-> TRUE, returned |-> "True"]

\* TradingEngine.enable_trading: the flag afterwards and the value returned
enable_trading(enabled, sm) ==
    IF is_circuit_breaker_active(sm)
    THEN [trading_enabled |-> enabled, returned |-> "False"]
    ELSE [trading_enabled |-> TRUE, returned |-> "True"]

\* a call of TradingEngine.enable_trading while trades run
EnableTrading ==
    /\ component = "bot"
    /\ trading_enabled' = enable_trading(trading_enabled, safety_manager).trading_enabled
    /\ UNCHANGED <<component, safety_attributes, safety_check, day_changed, scored, scannerVars, enable_trading_returned, engineVars, placed_amount, recorded, circuit_breaker_enabled, safety_manager, total_trades,
                   successful_trades, total_profit_usd, trades, active_trades,
                   completed_trades, venue_orders, shutdown, breaker_alert, notified,
                   loss_run, reset_called, status_log>>

\* TradingEngine.disable_trading
DisableTrading ==
    /\ component \in {"bot", "safety"}
    /\ trading_enabled' = FALSE
    /\ UNCHANGED <<component, safety_attributes, safety_check, day_changed, scored, scannerVars, enable_trading_returned, engineVars, placed_amount, recorded, circuit_breaker_enabled, safety_manager, total_trades,
                   successful_trades, total_profit_usd, trades, active_trades,
                   completed_trades, venue_orders, shutdown, breaker_alert, notified,
                   loss_run, reset_called, status_log>>

\* SafetyManager.deactivate_circuit_breaker, the manual reset
DeactivateCircuitBreaker ==
    /\ component \in {"bot", "safety"}
    /\ safety_manager' = deactivate_circuit_breaker(safety_manager)
    /\ loss_run' = IF safety_manager.circuit_breaker_active THEN 0 ELSE loss_run
    /\ reset_called' = Breached(safety_manager)
    /\ UNCHANGED <<component, safety_attributes, safety_check, day_changed, scored, scannerVars, enable_trading_returned, engineVars, placed_amount, recorded, circuit_breaker_enabled, trading_enabled, total_trades,
                   successful_trades, total_profit_usd, trades, active_trades,
                   completed_trades, venue_orders, shutdown, breaker_alert, notified,
                   status_log>>

\* ArbitrageBot.stop: the shutdown event is set and every task is cancelled
Stop ==
    /\ component = "bot"
    /\ ~shutdown
    /\ shutdown' = TRUE
    /\ UNCHANGED <<component, safety_attributes, safety_check, day_changed, scored, scannerVars, enable_trading_returned, engineVars, placed_amount, recorded, circuit_breaker_enabled, safety_manager, trading_enabled,
                   total_trades, successful_trades, total_profit_usd, trades,
                   active_trades, completed_trades, venue_orders, breaker_alert, notified,
                   loss_run, reset_called, status_log>>

\* a cancelled task: CancelledError passes the except clause, the finally clause runs
TaskCancelled(t) ==
    /\ component = "bot"
    /\ shutdown
    /\ trades[t].pc \in AwaitPoints
    /\ trades' = [trades EXCEPT ![t].pc = "cancelled"]
    /\ Finally(t)
    /\ UNCHANGED <<component, safety_attributes, safety_check, day_changed, scored, scannerVars, enable_trading_returned, engineVars, placed_amount, recorded, circuit_breaker_enabled, safety_manager, trading_enabled,
                   total_trades, successful_trades, total_profit_usd, venue_orders,
                   shutdown, breaker_alert, notified, loss_run, reset_called, status_log>>

InitBot ==
    /\ component = "bot"
    /\ safety_attributes = SafetyAttributesInit
    /\ safety_check = NotChecked
    /\ day_changed = FALSE
    /\ scored = NotScored
    /\ circuit_breaker_enabled = TRUE
    /\ safety_manager = SafetyManagerInit
    /\ trading_enabled = TRUE
    /\ enable_trading_returned = "none"
    /\ total_trades = 0
    /\ successful_trades = 0
    /\ total_profit_usd = 0
    /\ trades = [t \in TradeIds |-> NoTrade]
    /\ active_trades = {}
    /\ completed_trades = <<>>
    /\ venue_orders = {}
    /\ placed_amount = [t \in TradeIds |-> [buy |-> 0, sell |-> 0]]
    /\ shutdown = FALSE
    /\ recorded = 0
    /\ breaker_alert = FALSE
    /\ notified = [t \in TradeIds |-> 0]
    /\ loss_run = 0
    /\ reset_called = FALSE
    /\ status_log = [t \in TradeIds |-> <<>>]
    /\ circuit_breaker_triggered = FALSE
    /\ daily_stats = DailyStatsInit
    /\ emergency_cancel = "idle"
    /\ order_book_depth_configured = FALSE
    /\ ScannerIdle

NextBot ==
    \/ \E buy \in OppBuyPrices, sell \in OppSellPrices, max_quantity \in OppMaxQuantities,
          usd \in DynamicSizesUsd :
          ExecuteArbitrageTrade(buy, sell, max_quantity, usd)
    \/ \E t \in TradeIds, ask \in TickerAsks : FetchTickerReturns(t, ask)
    \/ \E t \in TradeIds, res \in PlaceResults : PlaceBuyReturns(t, res)
    \/ \E t \in TradeIds, res \in FetchResults : FetchBuyReturns(t, res)
    \/ \E t \in TradeIds, res \in PlaceResults : PlaceSellReturns(t, res)
    \/ \E t \in TradeIds, res \in FetchResults : FetchSellReturns(t, res)
    \/ EnableTrading
    \/ DisableTrading
    \/ DeactivateCircuitBreaker
    \/ Stop
    \/ \E t \in TradeIds : TaskCancelled(t)

Spec == InitBot /\ [][NextBot]_vars

\* --------------------------------------------- SafetyManager driven directly

\* record_profit(profit_usd) called on the SafetyManager
RecordProfitCall(profit_usd) ==
    /\ component = "safety"
    /\ recorded < MaxRecords
    /\ day_changed' = FALSE
    /\ recorded' = recorded + 1
    /\ safety_manager' = record_profit(safety_manager, profit_usd)
    /\ loss_run' = 0
    /\ reset_called' = ResetAfter(safety_manager, safety_manager')
    /\ UNCHANGED <<component, safety_attributes, safety_check, scored, scannerVars, enable_trading_returned, engineVars, placed_amount, circuit_breaker_enabled, trading_enabled,
                   total_trades, successful_trades, total_profit_usd, trades, active_trades,
                   completed_trades, venue_orders, shutdown, breaker_alert, notified,
                   status_log>>

\* record_loss(loss_usd) called on the SafetyManager
RecordLossCall(loss_usd) ==
    /\ component = "safety"
    /\ recorded < MaxRecords
    /\ day_changed' = FALSE
    /\ recorded' = recorded + 1
    /\ safety_manager' = record_loss(safety_manager, loss_usd, circuit_breaker_enabled)
    /\ loss_run' = loss_run + 1
    /\ reset_called' = ResetAfter(safety_manager, safety_manager')
    /\ UNCHANGED <<component, safety_attributes, safety_check, scored, scannerVars, enable_trading_returned, engineVars, placed_amount, circuit_breaker_enabled, trading_enabled,
                   total_trades, successful_trades, total_profit_usd, trades, active_trades,
                   completed_trades, venue_orders, shutdown, breaker_alert, notified,
                   status_log>>

\* midnight passes on the wall clock (datetime.now().day, time.time()); no
\* code runs at that moment: SafetyManager.reset_daily_metrics has no caller
DayChanges ==
    /\ component = "safety"
    /\ ~day_changed
    /\ day_changed' = TRUE
    /\ UNCHANGED <<component, safety_attributes, safety_check, scored, scannerVars, enable_trading_returned, engineVars, botVars,
                   trading_enabled, trades, active_trades, completed_trades,
                   venue_orders, status_log>>

InitSafety ==
    /\ component = "safety"
    /\ safety_attributes = SafetyAttributesInit
    /\ safety_check = NotChecked
    /\ day_changed = FALSE
    /\ scored = NotScored
    /\ circuit_breaker_enabled = TRUE
    /\ safety_manager = SafetyManagerInit
    /\ trading_enabled = TRUE
    /\ enable_trading_returned = "none"
    /\ total_trades = 0
    /\ successful_trades = 0
    /\ total_profit_usd = 0
    /\ trades = [t \in TradeIds |-> NoTrade]
    /\ active_trades = {}
    /\ completed_trades = <<>>
    /\ venue_orders = {}
    /\ placed_amount = [t \in TradeIds |-> [buy |-> 0, sell |-> 0]]
    /\ shutdown = FALSE
    /\ recorded = 0
    /\ breaker_alert = FALSE
    /\ notified = [t \in TradeIds |-> 0]
    /\ loss_run = 0
    /\ reset_called = FALSE
    /\ status_log = [t \in TradeIds |-> <<>>]
    /\ circuit_breaker_triggered = FALSE
    /\ daily_stats = DailyStatsInit
    /\ emergency_cancel = "idle"
    /\ order_book_depth_configured = FALSE
    /\ ScannerIdle

\* the dashboard route /trading/enable: trading_engine.enable_trading() and its answer
EnableTradingRoute ==
    /\ component = "safety"
    /\ trading_enabled' = enable_trading(trading_enabled, safety_manager).trading_enabled
    /\ enable_trading_returned' = enable_trading(trading_enabled, safety_manager).returned
    /\ UNCHANGED <<component, safety_attributes, safety_check, day_changed, scored, scannerVars, engineVars, placed_amount, recorded,
                   circuit_breaker_enabled, safety_manager, total_trades,
                   successful_trades, total_profit_usd, trades, active_trades,
                   completed_trades, venue_orders, shutdown, breaker_alert, notified,
                   loss_run, reset_called, status_log>>

NextSafety ==
    \/ \E p \in RecordedProfits : RecordProfitCall(p)
    \/ \E l \in RecordedLosses : RecordLossCall(l)
    \/ DeactivateCircuitBreaker
    \/ EnableTradingRoute
    \/ DisableTrading
    \/ DayChanges

SpecSafety == InitSafety /\ [][NextSafety]_vars

\* ------------------------------------- trading_engine.TradingEngine: data

\* TRADING_CONFIG["max_daily_trades"] (MAX_DAILY_TRADES, default 1000); the
\* model runs MAX_DAILY_TRADES=1 so that the cap is reached
MaxDailyTrades == 1
\* RISK_CONFIG["max_open_positions"], default 5; the model runs MAX_OPEN_POSITIONS=1
MaxOpenPositions == 1
\* min_trade_value in _calculate_trade_size
MinTradeValueUsd == 10
\* _move_to_completed: history length that triggers trimming, and what is kept
CompletedHistoryLimit == 1000
CompletedHistoryKept == 500

Sides == {"buy", "sell"}
\* opportunity.max_quantity as emitted by the scanner
MaxQuantities == {4, 10}
\* get_balance results (quote currency on the buy venue, base currency on the sell venue)
Balances == {0, 100}
\* opportunity.score; 0 stands for a missing score
Scores == {0, 100}
\* TRADING_CONFIG["pre_trade_slippage_estimation_threshold"], default 0.001
SlippageThresholdPerMille == 1
\* what get_order_book answers to _estimate_slippage: None, or the levels of
\* the side the order consumes, each <<price, quantity>>
NoOrderBook == [fetched |-> FALSE, levels |-> <<>>]
AskBooks ==
    {NoOrderBook,
     [fetched |-> TRUE, levels |-> <<<<2, 20>>>>],
     [fetched |-> TRUE, levels |-> <<<<2, 5>>, <<3, 20>>>>],
     [fetched |-> TRUE, levels |-> <<<<2, 1>>>>]}
BidBooks ==
    {[fetched |-> TRUE, levels |-> <<<<3, 20>>>>],
     [fetched |-> TRUE, levels |-> <<<<3, 5>>, <<2, 20>>>>]}
\* results of the exchange manager's place_order as seen by _place_order
EnginePlaceResults == {"ok", "raise"}
\* results of get_order_status as seen by _update_order_status
PollResults == {"open", "partial", "closed", "canceled", "error"}
\* quantity a partially filled order reports as filled
PartialFills == {1}

Min(a, b) == IF a < b THEN a ELSE b

\* Order(...) as built by _create_arbitrage_trade
NewOrder ==
    [status |-> "PENDING", exchange_order_id |-> FALSE, filled_amount |-> 0, fee |-> 0]

\* no ArbitrageTrade object under this id yet
NoArbitrageTrade ==
    [pc |-> "none", status |-> "NONE", amount |-> 0,
     orders |-> [s \in Sides |-> NewOrder],
     tasks |-> [s \in Sides |-> "idle"],
     actual_profit_usd |-> 0, timed_out |-> FALSE, cancel_refused |-> FALSE,
     expected_profit_usd |-> 0, error_message |-> "",
     filled_on_venue |-> {}]

\* limit price of each leg: opportunity.buy_price / opportunity.sell_price
OrderPrice(side) == IF side = "buy" THEN 2 ELSE 3

\* opportunity.potential_profit_usd as the scanner computes it, in thousandths:
\* (sell_price * (1 - fee) - buy_price * (1 + fee)) * max_quantity
potential_profit_usd(max_quantity) ==
    (OrderPrice("sell") * (Milli - TradingFeePerMille)
       - OrderPrice("buy") * (Milli + TradingFeePerMille)) * max_quantity

\* TradingEngine._create_arbitrage_trade, then status EXECUTING at the head of _execute_trade
NewArbitrageTrade(max_quantity, amount) ==
    [NoArbitrageTrade EXCEPT !.pc = "slippage", !.status = "EXECUTING", !.amount = amount,
                             !.expected_profit_usd = potential_profit_usd(max_quantity)]

\* the loop of _estimate_slippage over the levels from position i on:
\* <<filled_amount, cost>> when it ends
RECURSIVE fill_levels(_, _, _, _, _)
fill_levels(levels, i, amount, filled_amount, cost) ==
    IF i > Len(levels)
    THEN <<filled_amount, cost>>
    ELSE IF filled_amount + levels[i][2] >= amount
         THEN <<amount, cost + (amount - filled_amount) * levels[i][1]>>
         ELSE fill_levels(levels, i + 1, amount, filled_amount + levels[i][2],
                          cost + levels[i][2] * levels[i][1])

\* TradingEngine._estimate_slippage, in millionths (rounded down): 0.0 without
\* an order book, 1.0 when the levels cannot fill the amount
estimate_slippage(order_book, amount, price) ==
    IF ~order_book.fetched
    THEN 0
    ELSE LET r == fill_levels(order_book.levels, 1, amount, 0, 0)
         IN  IF r[1] < amount
             THEN Micro
             ELSE IF price > 0
                  THEN (Abs(r[2] - price * amount) * Micro) \div (price * amount)
                  ELSE 0

\* an estimate that never aborts
slippage_never_high(total_estimated_slippage, expected_profit_usd) == FALSE

\* the test of _execute_trade: total slippage (millionths) against the
\* threshold times the expected profit (thousandths of a dollar)
high_estimated_slippage(total_estimated_slippage, expected_profit_usd) ==
    /\ expected_profit_usd > 0
    /\ total_estimated_slippage > SlippageThresholdPerMille * expected_profit_usd

\* the two tests of TradingEngine._check_daily_limits
DailyTradeLimitReached(stats) == stats.trades_executed >= MaxDailyTrades
DailyLossLimitReached(stats) == stats.total_loss_usd >= MaxDailyLossUsd * Milli

\* TradingEngine._check_risk_limits
engine_check_risk_limits(open_positions, max_quantity, buy_balance, sell_balance) ==
    /\ open_positions < MaxOpenPositions
    /\ ~(buy_balance < max_quantity * OrderPrice("buy") \/ sell_balance < max_quantity)

\* TradingEngine._calculate_trade_size
calculate_trade_size(max_quantity, buy_balance, sell_balance, score) ==
    LET buy_price == OrderPrice("buy")
        max_by_buy_balance == IF buy_price > 0 THEN buy_balance \div buy_price ELSE 0
        max_amount == Min(max_quantity, Min(max_by_buy_balance, sell_balance))
        max_by_trade_limit == IF buy_price > 0 THEN MaxTradeAmountUsd \div buy_price ELSE 0
        final_amount == Min(max_amount, max_by_trade_limit)
        min_amount == IF buy_price > 0 THEN MinTradeValueUsd \div buy_price ELSE 0
    IN  IF final_amount < min_amount
        THEN 0
        ELSE IF score # 0 THEN (final_amount * score) \div 100 ELSE final_amount \div 2

\* TradingEngine._update_order_status: one get_order_status answer applied to an order
update_order_status(order, side, amount, res, partial) ==
    CASE res = "closed" ->
           [order EXCEPT !.status = "FILLED", !.filled_amount = amount,
                         !.fee = amount * OrderPrice(side) * TradingFeePerMille]
      [] res = "canceled" -> [order EXCEPT !.status = "CANCELLED"]
      [] res = "partial" ->
           [order EXCEPT !.status = "PARTIALLY_FILLED", !.filled_amount = partial,
                         !.fee = partial * OrderPrice(side) * TradingFeePerMille]
      [] OTHER -> order

\* a _handle_timeout that leaves the trade executing
handle_timeout_status_none(buy_status, sell_status) == "EXECUTING"

\* TradingEngine._handle_timeout: the final status it assigns
handle_timeout_status(buy_status, sell_status) ==
    LET buy_filled == buy_status \in {"FILLED", "PARTIALLY_FILLED"}
        sell_filled == sell_status \in {"FILLED", "PARTIALLY_FILLED"}
    IN  IF buy_filled /\ sell_filled THEN "PARTIALLY_FILLED"
        ELSE IF buy_filled \/ sell_filled THEN "PARTIALLY_FILLED"
        ELSE "CANCELLED"

\* TradingEngine._calculate_actual_profit (fills are reported at the limit price)
calculate_actual_profit(buy_order, sell_order) ==
    IF /\ buy_order.status \in {"FILLED", "PARTIALLY_FILLED"}
       /\ sell_order.status \in {"FILLED", "PARTIALLY_FILLED"}
    THEN LET executed_amount == Min(buy_order.filled_amount, sell_order.filled_amount)
         IN  IF executed_amount > 0
             THEN executed_amount * OrderPrice("sell") * Milli
                    - executed_amount * OrderPrice("buy") * Milli
                    - (buy_order.fee + sell_order.fee)
             ELSE -(buy_order.fee + sell_order.fee)
    ELSE 0

\* TradingEngine._update_trade_statistics
update_trade_statistics(stats, status, actual_profit_usd) ==
    IF status = "COMPLETED"
    THEN [stats EXCEPT
            !.trades_executed = @ + 1,
            !.successful_trades = @ + 1,
            !.total_profit_usd = IF actual_profit_usd > 0 THEN @ + actual_profit_usd ELSE @,
            !.total_loss_usd = IF actual_profit_usd > 0 THEN @ ELSE @ + Abs(actual_profit_usd)]
    ELSE [stats EXCEPT
            !.trades_executed = @ + 1,
            !.failed_trades = @ + 1,
            !.total_loss_usd = IF actual_profit_usd < 0 THEN @ + Abs(actual_profit_usd) ELSE @]

\* TradingEngine._move_to_completed: the history after one more append
move_to_completed(history, t) ==
    LET appended == Append(history, t)
    IN  IF Len(appended) > CompletedHistoryLimit
        THEN SubSeq(appended, Len(appended) - CompletedHistoryKept + 1, Len(appended))
        ELSE appended

\* the orders _cancel_trade_orders asks the venue to cancel
orders_to_cancel(tr) ==
    {s \in Sides : tr.orders[s].status = "PLACED" /\ tr.orders[s].exchange_order_id}

\* TradingEngine._cancel_trade_orders: the trade after the venue answered; the cancel of
\* a side in `cancelled` succeeded
cancel_trade_orders(tr, cancelled) ==
    [tr EXCEPT
       !.orders = [s \in Sides |->
                     IF s \in orders_to_cancel(tr) /\ s \in cancelled
                     THEN [tr.orders[s] EXCEPT !.status = "CANCELLED"]
                     ELSE tr.orders[s]],
       !.cancel_refused = @ \/ (orders_to_cancel(tr) \ cancelled # {})]

\* first id no ArbitrageTrade uses (uuid4 in the source)
UnusedIds == {t \in EngineTradeIds : trades[t].pc = "none"}

\* ---------------------------------- trading_engine.TradingEngine: actions

\* the tail of _execute_trade once _monitor_trade_execution returned: profit,
\* statistics, and the finally clause; tr carries the final status and orders
Settle(t, tr) ==
    LET profit == calculate_actual_profit(tr.orders["buy"], tr.orders["sell"])
    IN  /\ trades' = [trades EXCEPT ![t] = [tr EXCEPT !.pc = "done",
                                                      !.actual_profit_usd = profit]]
        /\ status_log' = [status_log EXCEPT ![t] = Append(@, tr.status)]
        /\ daily_stats' = update_trade_statistics(daily_stats, tr.status, profit)
        /\ completed_trades' = move_to_completed(completed_trades, t)
        /\ active_trades' = active_trades \ {t}

\* the except and finally clauses of _execute_trade when no order needs cancelling
FailBeforeOrders(t, tr) ==
    /\ trades' = [trades EXCEPT ![t] = [tr EXCEPT !.pc = "done", !.status = "FAILED",
                                                  !.error_message = "exception"]]
    /\ completed_trades' = move_to_completed(completed_trades, t)
    /\ active_trades' = active_trades \ {t}

\* TradingEngine.execute_arbitrage up to the first suspension of _execute_trade
ExecuteArbitrage(max_quantity, buy_balance, sell_balance, score) ==
    LET amount == calculate_trade_size(max_quantity, buy_balance, sell_balance, score)
        reaches_limits == trading_enabled /\ ~circuit_breaker_triggered
        within_daily_limits == /\ ~DailyTradeLimitReached(daily_stats)
                               /\ ~DailyLossLimitReached(daily_stats)
        admitted == /\ reaches_limits
                    /\ within_daily_limits
                    /\ engine_check_risk_limits(Cardinality(active_trades), max_quantity,
                                                buy_balance, sell_balance)
                    /\ amount > 0
    IN  /\ component = "engine"
        /\ admitted => UnusedIds # {}
        /\ IF admitted
           THEN LET t == CHOOSE x \in UnusedIds : \A y \in UnusedIds : x <= y
                IN  /\ IF order_book_depth_configured
                       THEN /\ trades' = [trades EXCEPT ![t] = NewArbitrageTrade(max_quantity, amount)]
                            /\ status_log' = [status_log EXCEPT
                                                ![t] = <<"PENDING", "EXECUTING">>]
                            /\ active_trades' = active_trades \cup {t}
                            /\ UNCHANGED completed_trades
                       ELSE \* KeyError in _estimate_slippage before it suspends
                            /\ FailBeforeOrders(t, NewArbitrageTrade(max_quantity, amount))
                            /\ status_log' = [status_log EXCEPT
                                                ![t] = <<"PENDING", "EXECUTING", "FAILED">>]
                    /\ UNCHANGED <<trading_enabled, circuit_breaker_triggered,
                                   emergency_cancel>>
           ELSE /\ IF /\ reaches_limits
                      /\ ~DailyTradeLimitReached(daily_stats)
                      /\ DailyLossLimitReached(daily_stats)
                   THEN \* trigger_circuit_breaker("Daily loss limit exceeded")
                        /\ circuit_breaker_triggered' = TRUE
                        /\ trading_enabled' = FALSE
                        /\ emergency_cancel' = "scheduled"
                   ELSE UNCHANGED <<trading_enabled, circuit_breaker_triggered,
                                    emergency_cancel>>
                /\ UNCHANGED <<trades, status_log, active_trades, completed_trades>>
        /\ UNCHANGED <<component, safety_attributes, safety_check, day_changed, scored, scannerVars, enable_trading_returned, botVars, daily_stats, venue_orders,
                       order_book_depth_configured>>

\* the two estimates of _execute_trade added up
total_estimated_slippage(tr, buy_book, sell_book) ==
    estimate_slippage(buy_book, tr.amount, OrderPrice("buy"))
      + estimate_slippage(sell_book, tr.amount, OrderPrice("sell"))

\* both awaits of _estimate_slippage are over
EstimateSlippageReturns(t, buy_book, sell_book) ==
    /\ component = "engine"
    /\ trades[t].pc = "slippage"
    /\ IF high_estimated_slippage(total_estimated_slippage(trades[t], buy_book, sell_book),
                                  trades[t].expected_profit_usd)
       THEN \* FAILED, _move_to_completed, return; the finally clause moves it again
            /\ trades' = [trades EXCEPT ![t].pc = "done", ![t].status = "FAILED",
                                        ![t].error_message = "High estimated slippage"]
            /\ status_log' = [status_log EXCEPT ![t] = Append(@, "FAILED")]
            /\ completed_trades' =
                   move_to_completed(move_to_completed(completed_trades, t), t)
            /\ active_trades' = active_trades \ {t}
       ELSE \* create_task(_place_order(buy)), create_task(_place_order(sell)), await gather
            /\ trades' = [trades EXCEPT ![t].pc = "gather",
                                        ![t].tasks = [s \in Sides |-> "placing"]]
            /\ UNCHANGED <<status_log, completed_trades, active_trades>>
    /\ UNCHANGED <<component, safety_attributes, safety_check, day_changed, scored, scannerVars, enable_trading_returned, botVars, engineVars, trading_enabled, venue_orders>>

\* get_order_book raises inside _estimate_slippage: except and finally clauses
EstimateSlippageRaises(t) ==
    /\ component = "engine"
    /\ trades[t].pc = "slippage"
    /\ FailBeforeOrders(t, trades[t])
    /\ status_log' = [status_log EXCEPT ![t] = Append(@, "FAILED")]
    /\ UNCHANGED <<component, safety_attributes, safety_check, day_changed, scored, scannerVars, enable_trading_returned, botVars, engineVars, trading_enabled, venue_orders>>

\* the await in _place_order returns, in the task of one leg
PlaceOrderReturns(t, side, res) ==
    /\ component = "engine"
    /\ trades[t].tasks[side] = "placing"
    /\ trades' = [trades EXCEPT
                    ![t].tasks[side] = "done",
                    ![t].orders[side] =
                        IF res = "ok"
                        THEN [@ EXCEPT !.status = "PLACED", !.exchange_order_id = TRUE]
                        ELSE [@ EXCEPT !.status = "FAILED"]]
    /\ venue_orders' = IF res = "ok" THEN venue_orders \cup {<<t, side>>} ELSE venue_orders
    /\ UNCHANGED <<component, safety_attributes, safety_check, day_changed, scored, scannerVars, enable_trading_returned, botVars, engineVars, trading_enabled, status_log,
                   active_trades, completed_trades>>

\* gather re-raises the first placement failure: except clause, _cancel_trade_orders,
\* finally clause
GatherRaises(t, cancelled) ==
    /\ component = "engine"
    /\ trades[t].pc = "gather"
    /\ \E s \in Sides : trades[t].tasks[s] = "done" /\ trades[t].orders[s].status = "FAILED"
    /\ cancelled \subseteq orders_to_cancel(trades[t])
    /\ FailBeforeOrders(t, cancel_trade_orders(trades[t], cancelled))
    /\ status_log' = [status_log EXCEPT ![t] = Append(@, "FAILED")]
    /\ venue_orders' = venue_orders \ {<<t, s>> : s \in cancelled}
    /\ UNCHANGED <<component, safety_attributes, safety_check, day_changed, scored, scannerVars, enable_trading_returned, botVars, engineVars, trading_enabled>>

\* gather returns: both placement tasks ended without raising
GatherReturns(t) ==
    /\ component = "engine"
    /\ trades[t].pc = "gather"
    /\ \A s \in Sides : trades[t].tasks[s] = "done" /\ trades[t].orders[s].status # "FAILED"
    /\ trades' = [trades EXCEPT ![t].pc = "monitor"]
    /\ UNCHANGED <<component, safety_attributes, safety_check, day_changed, scored, scannerVars, enable_trading_returned, botVars, engineVars, trading_enabled, status_log,
                   active_trades, completed_trades, venue_orders>>

\* one pass of the loop of _monitor_trade_execution before the timeout
MonitorIteration(t, buy_res, sell_res, partial) ==
    LET tr == trades[t]
        res == [s \in Sides |-> IF s = "buy" THEN buy_res ELSE sell_res]
        polled == {s \in Sides : tr.orders[s].status = "PLACED"}
        orders == [s \in Sides |->
                     IF s \in polled
                     THEN update_order_status(tr.orders[s], s, tr.amount, res[s], partial)
                     ELSE tr.orders[s]]
        closed == {s \in polled : res[s] \in {"closed", "canceled"}}
        decided == IF \A s \in Sides : orders[s].status = "FILLED" THEN "COMPLETED"
                   ELSE IF \E s \in Sides : orders[s].status = "FAILED" THEN "FAILED"
                   ELSE "EXECUTING"
    IN  /\ component = "engine"
        /\ tr.pc = "monitor"
        /\ \A s \in Sides \ polled : res[s] = "open"
        /\ venue_orders' = venue_orders \ {<<t, s>> : s \in closed}
        /\ IF decided = "EXECUTING"
           THEN /\ trades' = [trades EXCEPT ![t].orders = orders]
                /\ UNCHANGED <<status_log, daily_stats, completed_trades, active_trades>>
           ELSE Settle(t, [tr EXCEPT !.orders = orders, !.status = decided])
        /\ UNCHANGED <<component, safety_attributes, safety_check, day_changed, scored, scannerVars, enable_trading_returned, botVars, trading_enabled, circuit_breaker_triggered,
                       emergency_cancel, order_book_depth_configured>>

\* the venue fills the rest of an order it reported partially filled: the
\* order is closed there; the monitoring loop polls PLACED orders only, so
\* no later get_order_status call reports it
VenueFillsOrder(t, s) ==
    /\ component = "engine"
    /\ trades[t].pc = "monitor"
    /\ trades[t].orders[s].status = "PARTIALLY_FILLED"
    /\ <<t, s>> \in venue_orders
    /\ venue_orders' = venue_orders \ {<<t, s>>}
    /\ trades' = [trades EXCEPT ![t].filled_on_venue = @ \cup {s}]
    /\ UNCHANGED <<component, safety_attributes, safety_check, day_changed, scored, scannerVars, enable_trading_returned, botVars, engineVars, trading_enabled, status_log,
                   active_trades, completed_trades>>

\* the order timeout elapses: _handle_timeout, then the tail of _execute_trade
TimeoutElapses(t, cancelled) ==
    LET after == cancel_trade_orders(trades[t], cancelled)
        final == handle_timeout_status(after.orders["buy"].status,
                                       after.orders["sell"].status)
    IN  /\ component = "engine"
        /\ trades[t].pc = "monitor"
        /\ cancelled \subseteq orders_to_cancel(trades[t])
        /\ venue_orders' = venue_orders \ {<<t, s>> : s \in cancelled}
        /\ Settle(t, [after EXCEPT !.status = final, !.timed_out = TRUE])
        /\ UNCHANGED <<component, safety_attributes, safety_check, day_changed, scored, scannerVars, enable_trading_returned, botVars, trading_enabled, circuit_breaker_triggered,
                       emergency_cancel, order_book_depth_configured>>

\* an enable_trading that does not look at the circuit breaker
engine_enable_trading_unchecked(enabled, triggered) ==
    [trading_enabled |-> TRUE, returned |-> "True"]

\* trading_engine.TradingEngine.enable_trading: the flag afterwards and the value returned
engine_enable_trading(enabled, triggered) ==
    IF triggered
    THEN [trading_enabled |-> enabled, returned |-> "False"]
    ELSE [trading_enabled |-> TRUE, returned |-> "True"]

\* a call of trading_engine.TradingEngine.enable_trading
EngineEnableTrading ==
    /\ component = "engine"
    /\ trading_enabled' = engine_enable_trading(trading_enabled,
                                                circuit_breaker_triggered).trading_enabled
    /\ enable_trading_returned' = engine_enable_trading(trading_enabled,
                                                        circuit_breaker_triggered).returned
    /\ UNCHANGED <<component, safety_attributes, safety_check, day_changed, scored, scannerVars, botVars, engineVars, trades, status_log, active_trades,
                   completed_trades, venue_orders>>

\* trading_engine.TradingEngine.disable_trading
EngineDisableTrading ==
    /\ component = "engine"
    /\ trading_enabled' = FALSE
    /\ UNCHANGED <<component, safety_attributes, safety_check, day_changed, scored, scannerVars, enable_trading_returned, botVars, engineVars, trades, status_log, active_trades,
                   completed_trades, venue_orders>>

\* TradingEngine.trigger_circuit_breaker
TriggerCircuitBreaker ==
    /\ component = "engine"
    /\ circuit_breaker_triggered' = TRUE
    /\ trading_enabled' = FALSE
    /\ emergency_cancel' = "scheduled"
    /\ UNCHANGED <<component, safety_attributes, safety_check, day_changed, scored, scannerVars, enable_trading_returned, botVars, daily_stats, order_book_depth_configured, trades,
                   status_log, active_trades, completed_trades, venue_orders>>

\* the task running _emergency_cancel_all_orders; the cancels in `cancelled` succeed
EmergencyCancelAllOrders(cancelled) ==
    /\ component = "engine"
    /\ emergency_cancel = "scheduled"
    /\ cancelled \subseteq {<<t, s>> \in active_trades \X Sides :
                              s \in orders_to_cancel(trades[t])}
    /\ emergency_cancel' = "idle"
    /\ trades' = [t \in TradeIds |->
                    IF t \in active_trades
                    THEN cancel_trade_orders(trades[t], {s \in Sides : <<t, s>> \in cancelled})
                    ELSE trades[t]]
    /\ venue_orders' = venue_orders \ cancelled
    /\ UNCHANGED <<component, safety_attributes, safety_check, day_changed, scored, scannerVars, enable_trading_returned, botVars, circuit_breaker_triggered, daily_stats,
                   order_book_depth_configured, trading_enabled, status_log,
                   active_trades, completed_trades>>

InitEngine ==
    /\ component = "engine"
    /\ safety_attributes = SafetyAttributesInit
    /\ safety_check = NotChecked
    /\ day_changed = FALSE
    /\ scored = NotScored
    /\ circuit_breaker_enabled = TRUE
    /\ safety_manager = SafetyManagerInit
    /\ trading_enabled = FALSE
    /\ enable_trading_returned = "none"
    /\ total_trades = 0
    /\ successful_trades = 0
    /\ total_profit_usd = 0
    /\ trades = [t \in TradeIds |-> NoArbitrageTrade]
    /\ active_trades = {}
    /\ completed_trades = <<>>
    /\ venue_orders = {}
    /\ placed_amount = [t \in TradeIds |-> [buy |-> 0, sell |-> 0]]
    /\ shutdown = FALSE
    /\ recorded = 0
    /\ breaker_alert = FALSE
    /\ notified = [t \in TradeIds |-> 0]
    /\ loss_run = 0
    /\ reset_called = FALSE
    /\ status_log = [t \in TradeIds |-> <<>>]
    /\ circuit_breaker_triggered = FALSE
    /\ daily_stats = DailyStatsInit
    /\ emergency_cancel = "idle"
    /\ order_book_depth_configured \in BOOLEAN
    /\ ScannerIdle

NextEngine ==
    \/ \E q \in MaxQuantities, b \in Balances, c \in Balances, sc \in Scores :
          ExecuteArbitrage(q, b, c, sc)
    \/ \E t \in EngineTradeIds, buy_book \in AskBooks, sell_book \in BidBooks :
            EstimateSlippageReturns(t, buy_book, sell_book)
    \/ \E t \in EngineTradeIds : EstimateSlippageRaises(t)
    \/ \E t \in EngineTradeIds, s \in Sides, res \in EnginePlaceResults : PlaceOrderReturns(t, s, res)
    \/ \E t \in EngineTradeIds, cancelled \in SUBSET Sides : GatherRaises(t, cancelled)
    \/ \E t \in EngineTradeIds : GatherReturns(t)
    \/ \E t \in EngineTradeIds, b \in PollResults, s \in PollResults, p \in PartialFills :
          MonitorIteration(t, b, s, p)
    \/ \E t \in EngineTradeIds, s \in Sides : VenueFillsOrder(t, s)
    \/ \E t \in EngineTradeIds, cancelled \in SUBSET Sides : TimeoutElapses(t, cancelled)
    \/ EngineEnableTrading
    \/ EngineDisableTrading
    \/ TriggerCircuitBreaker
    \/ \E cancelled \in SUBSET (EngineTradeIds \X Sides) : EmergencyCancelAllOrders(cancelled)

SpecEngine == InitEngine /\ [][NextEngine]_vars

\* both executors, one per run
SpecExec == (InitBot \/ InitEngine) /\ [][NextBot \/ NextEngine]_vars

\* the next return of an await of _execute_trade for trade t, or the end of
\* its monitoring loop by the order timeout; another poll of the loop is not
\* progress
EngineTaskStep(t) ==
    \/ \E buy_book \in AskBooks, sell_book \in BidBooks :
            EstimateSlippageReturns(t, buy_book, sell_book)
    \/ EstimateSlippageRaises(t)
    \/ \E s \in Sides, res \in EnginePlaceResults : PlaceOrderReturns(t, s, res)
    \/ \E cancelled \in SUBSET Sides : GatherRaises(t, cancelled)
    \/ GatherReturns(t)
    \/ \E cancelled \in SUBSET Sides : TimeoutElapses(t, cancelled)

\* the two-leg executor when venue calls return and time advances: the event
\* loop resumes every task whose await has returned, and the clock passes
\* the order timeout
SpecLive ==
    /\ InitEngine
    /\ [][NextEngine]_vars
    /\ \A t \in EngineTradeIds : WF_vars(EngineTaskStep(t))

\* the operator's controls of both executors, one per run
SpecControl == (InitSafety \/ InitEngine) /\ [][NextSafety \/ NextEngine]_vars

\* ------------------------------------- price_monitor.PriceMonitor and the controller loop

\* TRADING_CONFIG["min_profit_threshold"] values of the runs, per mille: 0.1% and 0.5%
Thresholds == {1, 5}

\* trading fee of a venue, per mille: zero or the default 0.001
FeesPerMille == {0, TradingFeePerMille}

\* market data of a venue: quote and order-book levels <<price, quantity>>
LowTicker ==
    [bid |-> 45000, ask |-> 45010,
     bids |-> <<<<45000, 4000>>>>,
     asks |-> <<<<45010, 5000>>, <<45020, 5000>>>>]

\* the same quote on a thin book whose third level is out of order
ThinLowTicker ==
    [bid |-> 45000, ask |-> 45010,
     bids |-> <<<<45000, 4000>>>>,
     asks |-> <<<<45010, 1000>>, <<45020, 5000>>, <<45005, 700>>>>]

HighTicker ==
    [bid |-> 45120, ask |-> 45130,
     bids |-> <<<<45120, 3000>>, <<45110, 9000>>, <<45125, 500>>>>,
     asks |-> <<<<45130, 2000>>>>]

\* a quote without order-book levels
HighTickerNoBook == [bid |-> 45120, ask |-> 45130, bids |-> <<>>, asks |-> <<>>]

\* the low quote as WebSocketManager stores it: "bids": [], "asks": []
LowTickerNoBook == [bid |-> 45000, ask |-> 45010, bids |-> <<>>, asks |-> <<>>]

\* a quote whose first bid level does not unpack as (price, quantity)
HighTickerBadBook ==
    [bid |-> 45120, ask |-> 45130,
     bids |-> <<<<45120, 3000, 1>>>>,
     asks |-> <<<<45130, 2000>>>>]

MarketData ==
    {NoTicker, LowTicker, ThinLowTicker, LowTickerNoBook, HighTicker, HighTickerNoBook,
     HighTickerBadBook}

\* what get_latest_market_data delivers in one cycle: the first venue has no
\* data or a low quote, the last venue no data or the high quote; the low
\* quote without levels comes from the first venue only
TickerInputs ==
    {tk \in [VenueSet -> MarketData] :
        /\ tk[Venues[1]] \in {NoTicker, LowTicker, ThinLowTicker, LowTickerNoBook}
        /\ \A i \in 2..Len(Venues) : tk[Venues[i]] # LowTickerNoBook
        /\ tk[Venues[Len(Venues)]] \in {NoTicker, HighTicker}}

\* "for price, quantity in buy_order_book" raises ValueError at a level that
\* is not a pair, unless the loop has left the book before
buy_book_raises(book, buy_price) ==
    \E i \in 1..Len(book) :
        /\ Len(book[i]) # 2
        /\ \A j \in 1..(i - 1) : Len(book[j]) = 2 /\ book[j][1] <= buy_price

\* "for price, quantity in sell_order_book" likewise
sell_book_raises(book, sell_price) ==
    \E i \in 1..Len(book) :
        /\ Len(book[i]) # 2
        /\ \A j \in 1..(i - 1) : Len(book[j]) = 2 /\ book[j][1] >= sell_price

\* _calculate_max_tradable_quantity: the loop over buy_order_book
RECURSIVE max_buy_quantity(_, _)
max_buy_quantity(book, buy_price) ==
    IF book = <<>> THEN 0
    ELSE IF Head(book)[1] <= buy_price
         THEN Head(book)[2] + max_buy_quantity(Tail(book), buy_price)
         ELSE 0

\* _calculate_max_tradable_quantity: the loop over sell_order_book
RECURSIVE max_sell_quantity(_, _)
max_sell_quantity(book, sell_price) ==
    IF book = <<>> THEN 0
    ELSE IF Head(book)[1] >= sell_price
         THEN Head(book)[2] + max_sell_quantity(Tail(book), sell_price)
         ELSE 0

\* a quantity limited by max_trade_amount_usd only, whatever the books hold
max_quantity_from_usd_only(buy_price, sell_price, buy_order_book, sell_order_book) ==
    IF buy_price > 0 THEN (2 * MaxTradeAmountUsd * Micro + buy_price) \div (2 * buy_price) ELSE 0

\* PriceMonitor._calculate_max_tradable_quantity, in millionths; the float
\* quotient max_trade_amount_usd / buy_price is the representable quantity
\* nearest to the exact one, here the nearest whole millionth
calculate_max_tradable_quantity(buy_price, sell_price, buy_order_book, sell_order_book) ==
    LET tradable_quantity == Min(max_buy_quantity(buy_order_book, buy_price),
                                 max_sell_quantity(sell_order_book, sell_price))
        max_quantity_from_usd == IF buy_price > 0
                                 THEN (2 * MaxTradeAmountUsd * Micro + buy_price)
                                          \div (2 * buy_price)
                                 ELSE 0
        max_quantity == Min(tradable_quantity, max_quantity_from_usd)
    IN  IF max_quantity > 0 THEN max_quantity ELSE 0

\* a profit test that looks at the raw prices only
is_profitable_raw(buy_price, sell_price, buy_fee, sell_fee, threshold) ==
    sell_price > buy_price

\* the three nested price tests of _scan_for_opportunities; effective prices
\* are in thousandths, fees and threshold per mille
is_profitable(buy_price, sell_price, buy_fee, sell_fee, threshold) ==
    LET effective_buy_price == buy_price * (1000 + buy_fee)
        effective_sell_price == sell_price * (1000 - sell_fee)
    IN  /\ sell_price > buy_price
        /\ effective_sell_price > effective_buy_price
        /\ (effective_sell_price - effective_buy_price) * 1000
               > threshold * effective_buy_price

\* ------------------------------------------- the score of an opportunity
\* _score_opportunity computes in binary floating point.  A float is a pair
\* m * 2^e whose mantissa m is zero or has exactly MantissaBits significant
\* bits; every operation rounds its exact result to the nearest such value,
\* ties to the even mantissa, as IEEE 754 arithmetic does (with 53 bits).
MantissaBits == 13

RECURSIVE Pow2(_)
Pow2(n) == IF n = 0 THEN 1 ELSE 2 * Pow2(n - 1)

RECURSIVE bit_length(_)
bit_length(n) == IF n = 0 THEN 0 ELSE 1 + bit_length(n \div 2)

FloatZero == [m |-> 0, e |-> 0]

\* the float nearest to m * 2^e (plus a positive remainder below 2^e when
\* sticky)
round_to_float(m, e, sticky) ==
    LET a == Abs(m)
        sign == IF m < 0 THEN -1 ELSE 1
        n == bit_length(a)
    IN  IF a = 0
        THEN FloatZero
        ELSE IF n <= MantissaBits
             THEN [m |-> sign * a * Pow2(MantissaBits - n), e |-> e - (MantissaBits - n)]
             ELSE LET sh == n - MantissaBits
                      q == a \div Pow2(sh)
                      r == a % Pow2(sh)
                      half == Pow2(sh - 1)
                      up == r > half \/ (r = half /\ (sticky \/ q % 2 = 1))
                      q2 == IF up THEN q + 1 ELSE q
                  IN  IF q2 = Pow2(MantissaBits)
                      THEN [m |-> sign * Pow2(MantissaBits - 1), e |-> e + sh + 1]
                      ELSE [m |-> sign * q2, e |-> e + sh]

\* k more quotient bits of a division by d: <<quotient, remainder>>
RECURSIVE long_division(_, _, _, _)
long_division(q, r, d, k) ==
    IF k = 0
    THEN <<q, r>>
    ELSE IF 2 * r >= d
         THEN long_division(2 * q + 1, 2 * r - d, d, k - 1)
         ELSE long_division(2 * q, 2 * r, d, k - 1)

\* the float nearest to n / d, for integers n >= 0 and d > 0: what a decimal
\* literal or an exactly computed quotient becomes
ratio_to_float(n, d) ==
    IF n = 0
    THEN FloatZero
    ELSE LET need == MantissaBits + 2 + bit_length(d) - bit_length(n)
             k == IF need > 0 THEN need ELSE 0
             qr == long_division(n \div d, n % d, d, k)
         IN  round_to_float(qr[1], 0 - k, qr[2] # 0)

\* x * y
float_mul(x, y) == round_to_float(x.m * y.m, x.e + y.e, FALSE)

\* x + y
float_add(x, y) ==
    IF x.m = 0 THEN y
    ELSE IF y.m = 0 THEN x
    ELSE IF x.e - y.e > MantissaBits + 2 THEN x
    ELSE IF y.e - x.e > MantissaBits + 2 THEN y
    ELSE LET e == IF x.e < y.e THEN x.e ELSE y.e
         IN  round_to_float(x.m * Pow2(x.e - e) + y.m * Pow2(y.e - e), e, FALSE)

\* x - y
float_sub(x, y) == float_add(x, [y EXCEPT !.m = 0 - @])

\* x / y, y # 0
float_div(x, y) ==
    LET f == ratio_to_float(Abs(x.m), Abs(y.m))
        sign == IF (x.m < 0) = (y.m < 0) THEN 1 ELSE -1
    IN  IF f.m = 0 THEN FloatZero ELSE [m |-> sign * f.m, e |-> f.e + x.e - y.e]

\* x < y
float_less(x, y) == float_sub(x, y).m < 0

\* min(x, y) and max(x, y) of Python: the first argument unless the second
\* is smaller (larger)
float_min(x, y) == IF float_less(y, x) THEN y ELSE x
float_max(x, y) == IF float_less(x, y) THEN y ELSE x

\* an integer literal
float_of(n) == round_to_float(n, 0, FALSE)

\* RISK_CONFIG["opportunity_scoring_weights"] as shipped, in hundredths:
\* profit, liquidity, volatility, historical_success
DefaultScoringWeights == <<40, 30, 20, 10>>

\* the weights as floats
scoring_weight(weights, i) == ratio_to_float(weights[i], 100)

\* PriceMonitor._score_opportunity (buy_fee and sell_fee are not used)
score_opportunity(potential_profit_pct, max_quantity, buy_volatility, sell_volatility, weights) ==
    LET normalized_profit ==
            float_min(float_mul(potential_profit_pct, float_of(10)), float_of(100))
        normalized_liquidity ==
            float_min(float_mul(float_div(max_quantity, float_of(10)), float_of(100)),
                      float_of(100))
        normalized_volatility ==
            float_max(float_of(0),
                      float_sub(float_of(100),
                                float_mul(float_add(buy_volatility, sell_volatility),
                                          float_of(1000))))
        historical_success_score == float_of(80)
    IN  float_add(
            float_add(
                float_add(float_mul(normalized_profit, scoring_weight(weights, 1)),
                          float_mul(normalized_liquidity, scoring_weight(weights, 2))),
                float_mul(normalized_volatility, scoring_weight(weights, 3))),
            float_mul(historical_success_score, scoring_weight(weights, 4)))

\* does the market data of some venue carry an order-book level
carries_levels(tk) ==
    \E v \in VenueSet : tk[v].bids # <<>> \/ tk[v].asks # <<>>

\* the ordered venue pair visited k-th by the two nested loops over tickers
VenuePair(k) ==
    [buy |-> Venues[((k - 1) \div Len(Venues)) + 1],
     sell |-> Venues[((k - 1) % Len(Venues)) + 1]]

\* the body of the inner loop for (buy, sell) raises inside
\* _calculate_max_tradable_quantity
Raises(tk, buy, sell) ==
    /\ buy # sell
    /\ tk[buy].ask > 0
    /\ tk[sell].bid > 0
    /\ is_profitable(tk[buy].ask, tk[sell].bid, trading_fees[buy],
                     trading_fees[sell], min_profit_threshold)
    /\ \/ buy_book_raises(tk[buy].asks, tk[buy].ask)
       \/ sell_book_raises(tk[sell].bids, tk[sell].bid)

\* the body of the inner loop: is an opportunity appended for (buy, sell)
Emits(tk, buy, sell) ==
    /\ buy # sell
    /\ tk[buy].ask > 0
    /\ tk[sell].bid > 0
    /\ is_profitable(tk[buy].ask, tk[sell].bid, trading_fees[buy],
                     trading_fees[sell], min_profit_threshold)
    /\ ~buy_book_raises(tk[buy].asks, tk[buy].ask)
    /\ ~sell_book_raises(tk[sell].bids, tk[sell].bid)
    /\ calculate_max_tradable_quantity(tk[buy].ask, tk[sell].bid,
                                       tk[buy].asks, tk[sell].bids) > 0

\* potential_profit_pct of an emitted opportunity as a float: the exact
\* percentage, rounded
potential_profit_pct(buy_price, sell_price, buy_fee, sell_fee) ==
    LET effective_buy_price == buy_price * (1000 + buy_fee)
        effective_sell_price == sell_price * (1000 - sell_fee)
    IN  ratio_to_float((effective_sell_price - effective_buy_price) * 100,
                       effective_buy_price)

\* ArbitrageOpportunity(...): id stands for the identity of the object
NewOpportunity(tk, cycle, buy, sell) ==
    [id |-> <<cycle, buy, sell>>, buy_exchange |-> buy, sell_exchange |-> sell,
     buy_price |-> tk[buy].ask, sell_price |-> tk[sell].bid,
     max_quantity |-> calculate_max_tradable_quantity(tk[buy].ask, tk[sell].bid,
                                                      tk[buy].asks, tk[sell].bids)]

\* the score attribute of an opportunity: _score_opportunity of its profit
\* percentage and max_quantity with both volatilities 0.0, as the scan
\* calls it; the fees of a venue never change
opportunity_score(o) ==
    score_opportunity(
        potential_profit_pct(o.buy_price, o.sell_price,
                             trading_fees[o.buy_exchange], trading_fees[o.sell_exchange]),
        ratio_to_float(o.max_quantity, Micro),
        FloatZero, FloatZero, DefaultScoringWeights)

\* the position in the loops of the first venue pair whose body raises, 0 if
\* the loops run to their end
first_raising_pair(tk) ==
    LET raising == {k \in 1..(Len(Venues) * Len(Venues)) :
                       Raises(tk, VenuePair(k).buy, VenuePair(k).sell)}
    IN  IF raising = {} THEN 0
        ELSE CHOOSE k \in raising : \A other \in raising : k <= other

\* the opportunities a scan leaves in PriceMonitor.opportunities: those of the
\* venue pairs visited before the loops end or raise
scan_for_opportunities(tk, cycle) ==
    LET visited == IF first_raising_pair(tk) = 0
                   THEN Len(Venues) * Len(Venues)
                   ELSE first_raising_pair(tk) - 1
        pairs == [k \in 1..visited |-> VenuePair(k)]
        emitted(p) == Emits(tk, p.buy, p.sell)
        kept == SelectSeq(pairs, emitted)
    IN  [i \in 1..Len(kept) |-> NewOpportunity(tk, cycle, kept[i].buy, kept[i].sell)]

\* opportunities.sort(key=score, reverse=True) inserts o behind the entries
\* that score at least as much (the sort is stable)
insert_by_score(sorted, o) ==
    LET ahead == Cardinality({i \in 1..Len(sorted) :
                      \A j \in 1..i : ~float_less(opportunity_score(sorted[j]),
                                                   opportunity_score(o))})
    IN  SubSeq(sorted, 1, ahead) \o <<o>> \o SubSeq(sorted, ahead + 1, Len(sorted))

\* list(self.opportunities) sorted by score, highest first
RECURSIVE sort_by_score(_)
sort_by_score(opps) ==
    IF opps = <<>> THEN <<>>
    ELSE insert_by_score(sort_by_score(SubSeq(opps, 1, Len(opps) - 1)), opps[Len(opps)])

\* the tickers dict when the fetch loop raises at the k-th venue
PartialTickers(tk, k) ==
    [v \in VenueSet |->
        IF \E i \in 1..(k - 1) : Venues[i] = v THEN tk[v] ELSE NoTicker]

\* one iteration of start_monitoring whose _scan_for_opportunities gets past
\* the fetch loop: it completes, or the body of a venue pair raises and
\* start_monitoring catches the exception
ScanCycle(tk) ==
    /\ component = "scanner"
    /\ scan_cycles < MaxScans
    /\ scan_cycles' = scan_cycles + 1
    /\ tickers' = tk
    /\ levels_delivered' = (levels_delivered \/ carries_levels(tk))
    /\ opportunities' = scan_for_opportunities(tk, scan_cycles + 1)
    /\ last_scan_time' = IF first_raising_pair(tk) = 0 THEN scan_cycles + 1
                         ELSE last_scan_time
    /\ UNCHANGED <<component, safety_attributes, safety_check, day_changed, scored, engineVars, botVars, trading_enabled, enable_trading_returned, trades,
                   active_trades, completed_trades, venue_orders, status_log,
                   trading_fees, min_profit_threshold, controller_passes,
                   pass_queue, dispatched>>

\* one iteration of start_monitoring whose fetch loop raises at the k-th venue:
\* the exception is caught by start_monitoring before opportunities.clear()
ScanCycleFails(tk, k) ==
    /\ component = "scanner"
    /\ scan_cycles < MaxScans
    /\ scan_cycles' = scan_cycles + 1
    /\ tickers' = PartialTickers(tk, k)
    /\ levels_delivered' = (levels_delivered \/ carries_levels(PartialTickers(tk, k)))
    /\ UNCHANGED <<component, safety_attributes, safety_check, day_changed, scored, engineVars, botVars, trading_enabled, enable_trading_returned, trades,
                   active_trades, completed_trades, venue_orders, status_log,
                   trading_fees, min_profit_threshold, opportunities,
                   last_scan_time, controller_passes, pass_queue, dispatched>>

\* the head of a pass of the main arbitrage loop: the list copy, sorted by score
ControllerPass ==
    /\ component = "scanner"
    /\ pass_queue = <<>>
    /\ controller_passes < MaxPasses
    /\ controller_passes' = controller_passes + 1
    /\ pass_queue' = sort_by_score(opportunities)
    /\ UNCHANGED <<component, safety_attributes, safety_check, day_changed, scored, engineVars, botVars, trading_enabled, enable_trading_returned, trades,
                   active_trades, completed_trades, venue_orders, status_log,
                   trading_fees, min_profit_threshold, tickers, opportunities,
                   scan_cycles, last_scan_time, dispatched, levels_delivered>>

\* one turn of the for loop: create_task(execute_arbitrage_trade(opportunity)), then sleep
Dispatch ==
    /\ component = "scanner"
    /\ pass_queue # <<>>
    /\ dispatched' = Append(dispatched, Head(pass_queue).id)
    /\ pass_queue' = Tail(pass_queue)
    /\ UNCHANGED <<component, safety_attributes, safety_check, day_changed, scored, engineVars, botVars, trading_enabled, enable_trading_returned, trades,
                   active_trades, completed_trades, venue_orders, status_log,
                   trading_fees, min_profit_threshold, tickers, opportunities,
                   scan_cycles, last_scan_time, controller_passes, levels_delivered>>

InitScanner ==
    /\ component = "scanner"
    /\ safety_attributes = SafetyAttributesInit
    /\ safety_check = NotChecked
    /\ day_changed = FALSE
    /\ scored = NotScored
    /\ trading_enabled = TRUE
    /\ enable_trading_returned = "none"
    /\ trades = [t \in TradeIds |-> NoTrade]
    /\ active_trades = {}
    /\ completed_trades = <<>>
    /\ venue_orders = {}
    /\ status_log = [t \in TradeIds |-> <<>>]
    /\ placed_amount = [t \in TradeIds |-> [buy |-> 0, sell |-> 0]]
    /\ circuit_breaker_enabled = TRUE
    /\ safety_manager = SafetyManagerInit
    /\ total_trades = 0
    /\ successful_trades = 0
    /\ total_profit_usd = 0
    /\ shutdown = FALSE
    /\ recorded = 0
    /\ breaker_alert = FALSE
    /\ notified = [t \in TradeIds |-> 0]
    /\ loss_run = 0
    /\ reset_called = FALSE
    /\ circuit_breaker_triggered = FALSE
    /\ daily_stats = DailyStatsInit
    /\ emergency_cancel = "idle"
    /\ order_book_depth_configured = FALSE
    /\ trading_fees \in {[v \in VenueSet |-> fee] : fee \in FeesPerMille}
    /\ min_profit_threshold \in Thresholds
    /\ tickers = [v \in VenueSet |-> NoTicker]
    /\ opportunities = <<>>
    /\ scan_cycles = 0
    /\ last_scan_time = 0
    /\ controller_passes = 0
    /\ pass_queue = <<>>
    /\ dispatched = <<>>
    /\ levels_delivered = FALSE

NextScanner ==
    \/ \E tk \in TickerInputs : ScanCycle(tk)
    \/ \E k \in 1..Len(Venues) :
          \E tk \in {PartialTickers(full, k) : full \in TickerInputs} : ScanCycleFails(tk, k)
    \/ ControllerPass
    \/ Dispatch

SpecScanner == InitScanner /\ [][NextScanner]_vars

\* ------------------------------------------ calls of _score_opportunity

\* arguments as decimal literals <<numerator, denominator>>
ScoreProfitPcts == {<<0, 1>>, <<22, 100>>, <<5, 1>>, <<10, 1>>, <<50, 1>>}
ScoreQuantities == {<<0, 1>>, <<1, 1000>>, <<5, 1>>, <<10, 1>>, <<20, 1>>}
ScoreVolatilities == {<<0, 1>>, <<5, 1000>>, <<5, 100>>, <<1, 1>>}
\* scoring weights in hundredths
ScoreWeights ==
    {DefaultScoringWeights, <<100, 0, 0, 0>>, <<0, 0, 0, 100>>, <<25, 25, 25, 25>>,
     <<14, 55, 31, 0>>}

\* one call of PriceMonitor._score_opportunity
ScoreOpportunity(profit_pct, max_quantity, buy_volatility, sell_volatility, weights) ==
    /\ component = "scoring"
    /\ ~scored.called
    /\ scored' = [called |-> TRUE,
                  args |-> <<profit_pct, max_quantity, buy_volatility, sell_volatility>>,
                  weights |-> weights,
                  score |-> score_opportunity(
                                ratio_to_float(profit_pct[1], profit_pct[2]),
                                ratio_to_float(max_quantity[1], max_quantity[2]),
                                ratio_to_float(buy_volatility[1], buy_volatility[2]),
                                ratio_to_float(sell_volatility[1], sell_volatility[2]),
                                weights)]
    /\ UNCHANGED <<component, safety_attributes, safety_check, day_changed, scannerVars, engineVars, botVars, trading_enabled,
                   enable_trading_returned, trades, active_trades, completed_trades,
                   venue_orders, status_log>>

InitScoring ==
    /\ component = "scoring"
    /\ safety_attributes = SafetyAttributesInit
    /\ safety_check = NotChecked
    /\ day_changed = FALSE
    /\ scored = NotScored
    /\ trading_enabled = TRUE
    /\ enable_trading_returned = "none"
    /\ trades = [t \in TradeIds |-> NoTrade]
    /\ active_trades = {}
    /\ completed_trades = <<>>
    /\ venue_orders = {}
    /\ status_log = [t \in TradeIds |-> <<>>]
    /\ placed_amount = [t \in TradeIds |-> [buy |-> 0, sell |-> 0]]
    /\ circuit_breaker_enabled = TRUE
    /\ safety_manager = SafetyManagerInit
    /\ total_trades = 0
    /\ successful_trades = 0
    /\ total_profit_usd = 0
    /\ shutdown = FALSE
    /\ recorded = 0
    /\ breaker_alert = FALSE
    /\ notified = [t \in TradeIds |-> 0]
    /\ loss_run = 0
    /\ reset_called = FALSE
    /\ circuit_breaker_triggered = FALSE
    /\ daily_stats = DailyStatsInit
    /\ emergency_cancel = "idle"
    /\ order_book_depth_configured = FALSE
    /\ ScannerIdle

NextScoring ==
    \E profit_pct \in ScoreProfitPcts, max_quantity \in ScoreQuantities,
       buy_volatility \in ScoreVolatilities, sell_volatility \in ScoreVolatilities,
       weights \in ScoreWeights :
        ScoreOpportunity(profit_pct, max_quantity, buy_volatility, sell_volatility, weights)

SpecScoring == InitScoring /\ [][NextScoring]_vars

\* ------------------------------------------- long completed-trade histories

\* the history is followed over its last HistoryWindow entries before the limit
HistoryWindow == 100

\* lengths of the history of an executor that has completed that many trades
HistoryLengths == (CompletedHistoryLimit - HistoryWindow)..CompletedHistoryLimit

\* one more trade of the executor of arbitrage_bot.py ends: its finally clause
BotTradeEnds ==
    /\ component = "bot_history"
    /\ Len(completed_trades) <= CompletedHistoryLimit
    /\ completed_trades' = Append(completed_trades, Len(completed_trades) + 1)
    /\ UNCHANGED <<component, safety_attributes, safety_check, day_changed, scored, scannerVars, engineVars, botVars, trading_enabled,
                   enable_trading_returned, trades, active_trades, venue_orders,
                   status_log>>

\* one more trade of the executor of trading_engine.py ends: _move_to_completed
EngineTradeEnds ==
    /\ component = "engine_history"
    /\ completed_trades # <<>>
    /\ completed_trades[Len(completed_trades)] <= CompletedHistoryLimit
    /\ completed_trades' =
           move_to_completed(completed_trades, completed_trades[Len(completed_trades)] + 1)
    /\ UNCHANGED <<component, safety_attributes, safety_check, day_changed, scored, scannerVars, engineVars, botVars, trading_enabled,
                   enable_trading_returned, trades, active_trades, venue_orders,
                   status_log>>

InitHistory ==
    /\ component \in {"bot_history", "engine_history"}
    /\ safety_attributes = SafetyAttributesInit
    /\ safety_check = NotChecked
    /\ day_changed = FALSE
    /\ scored = NotScored
    /\ trading_enabled = TRUE
    /\ enable_trading_returned = "none"
    /\ trades = [t \in TradeIds |-> NoTrade]
    /\ active_trades = {}
    /\ completed_trades \in {[i \in 1..n |-> i] : n \in HistoryLengths}
    /\ venue_orders = {}
    /\ status_log = [t \in TradeIds |-> <<>>]
    /\ placed_amount = [t \in TradeIds |-> [buy |-> 0, sell |-> 0]]
    /\ circuit_breaker_enabled = TRUE
    /\ safety_manager = SafetyManagerInit
    /\ total_trades = 0
    /\ successful_trades = 0
    /\ total_profit_usd = 0
    /\ shutdown = FALSE
    /\ recorded = 0
    /\ breaker_alert = FALSE
    /\ notified = [t \in TradeIds |-> 0]
    /\ loss_run = 0
    /\ reset_called = FALSE
    /\ circuit_breaker_triggered = FALSE
    /\ daily_stats = DailyStatsInit
    /\ emergency_cancel = "idle"
    /\ order_book_depth_configured = FALSE
    /\ ScannerIdle

NextHistory ==
    \/ BotTradeEnds
    \/ EngineTradeEnds

SpecHistory == InitHistory /\ [][NextHistory]_vars

\* ------------------------------------------- SafetyManager.check_safety_before_trade

\* potential_profit_pct and its thresholds are counted in ten-thousandths
PctUnit == 10000

\* safety_rules[SafetyRule.PRICE_DEVIATION]['threshold'] = 0.05, in hundredths
PriceDeviationThresholdPct == 5

\* safety_rules[SafetyRule.SPREAD_ANOMALY]['threshold'] = 0.02, in ten-thousandths
SpreadAnomalyThreshold == 200

\* safety_margin = 1.5, in tenths
SafetyMarginTenths == 15

AttributeError == [outcome |-> "raised", is_safe |-> FALSE, reason |-> "AttributeError"]

Denied(reason) == [outcome |-> "returned", is_safe |-> FALSE, reason |-> reason]

Allowed == [outcome |-> "returned", is_safe |-> TRUE, reason |-> "None"]

\* deviation = abs(sell_price - buy_price) / avg_price > threshold,
\* with avg_price = (buy_price + sell_price) / 2
check_price_deviation(o) ==
    2 * 100 * Abs(o.sell_price - o.buy_price)
        > PriceDeviationThresholdPct * (o.buy_price + o.sell_price)

check_spread_anomaly(o) ==
    o.potential_profit_pct > SpreadAnomalyThreshold

\* min_profit = TRADING_CONFIG['min_profit_threshold'] * safety_margin, a
\* fraction compared with the opportunity's percentage as the code does
profit_below_safety_threshold(o, threshold) ==
    1000 * 10 * o.potential_profit_pct < threshold * SafetyMarginTenths * PctUnit

check_safety_before_trade(sm, o, threshold) ==
    IF "emergency_stop_active" \notin sm.assigned THEN AttributeError
    ELSE IF sm.emergency_stop_active THEN Denied("Emergency stop active")
    ELSE IF "trading_paused" \notin sm.assigned THEN AttributeError
    ELSE IF sm.trading_paused THEN Denied("Trading is currently paused due to safety concerns")
    ELSE IF "restricted_pairs" \notin sm.assigned THEN AttributeError
    ELSE IF o.symbol \in sm.restricted_pairs THEN Denied("Trading pair is restricted")
    ELSE IF "restricted_exchanges" \notin sm.assigned THEN AttributeError
    ELSE IF \/ o.buy_exchange \in sm.restricted_exchanges
            \/ o.sell_exchange \in sm.restricted_exchanges
         THEN Denied("One or both exchanges are restricted")
    ELSE IF "metrics" \notin sm.assigned THEN AttributeError
    ELSE IF sm.total_trades_today >= MaxDailyTrades THEN Denied("Daily trade limit reached")
    ELSE IF "safety_rules" \notin sm.assigned THEN AttributeError
    ELSE IF check_price_deviation(o) THEN Denied("Price deviation exceeds safety threshold")
    ELSE IF check_spread_anomaly(o) THEN Denied("Spread anomaly detected")
    ELSE IF profit_below_safety_threshold(o, threshold) THEN Denied("Profit below safety threshold")
    ELSE Allowed

\* the opportunities handed to the check: buy and sell price in USD and
\* potential_profit_pct in ten-thousandths (2200 is 0.22)
SafetyCheckOpportunities ==
    {[symbol |-> "BTC/USDT", buy_exchange |-> "binance", sell_exchange |-> "coinbase",
      buy_price |-> p[1], sell_price |-> p[2], potential_profit_pct |-> pct] :
        p \in {<<45000, 45100>>, <<45000, 48000>>, <<100, 101>>},
        pct \in {5, 100, 150, 2200, 5000}}

\* RISK_CONFIG["max_single_trade_loss_usd"] (read from the environment,
\* config.py:48); the model runs the configuration MAX_SINGLE_TRADE_LOSS_USD=3
MaxSingleTradeLossUsd == 3

\* safety_rules[SafetyRule.CONSECUTIVE_LOSSES]['threshold']
ConsecutiveLossesThreshold == 5

\* trade.actual_profit_usd of the trades handed to record_trade_result (thousandths)
TradeResults == {-3000, 3000}

\* the attributes no method of SafetyManager ever assigns
NeverAssigned ==
    {"restricted_pairs", "restricted_exchanges", "metrics", "safety_rules", "violations",
     "error_handler", "trade_history"}

\* a SafetyManager on which every attribute its methods read has been
\* assigned its empty value
SafetyAttributesAssigned ==
    [SafetyAttributesInit EXCEPT
        !.assigned = NeverAssigned \cup {"emergency_stop_active", "emergency_stop_reason",
                                         "trading_paused", "safety_level"}]

\* _record_violation followed by the action of the rule: 'pause_trading'
\* creates a task, 'restrict_pair' restricts the symbol of the context,
\* 'warning' does nothing more; the violation list and the safety level are
\* not followed
record_violation(sm, action, symbol) ==
    CASE action = "pause_trading" ->
           [sm EXCEPT !.tasks = Append(@, [kind |-> "pause", profit |-> 0])]
      [] action = "restrict_pair" ->
           [sm EXCEPT !.restricted_pairs = @ \cup {symbol}]
      [] OTHER -> sm

\* _trigger_emergency_stop: its three assignments; the increment of
\* self.metrics.emergency_stops_triggered that follows raises while
\* "metrics" is unassigned
trigger_emergency_stop(sm) ==
    [sm EXCEPT !.assigned = @ \cup {"emergency_stop_active", "emergency_stop_reason",
                                    "safety_level"},
               !.emergency_stop_active = TRUE]

\* _pause_trading up to its sleep; `then` is what the caller goes on with
\* once _pause_trading has returned
pause_trading(sm, then) ==
    [sm EXCEPT !.assigned = @ \cup {"trading_paused", "safety_level"},
               !.trading_paused = TRUE,
               !.pauses = @ + 1,
               !.paused_by = sm.pauses + 1,
               !.sleeping = Append(@, [pause |-> sm.pauses + 1, then |-> then])]

\* a resume_trading that also lifted the emergency stop
resume_trading_clears_stop(sm) ==
    [sm EXCEPT !.assigned = @ \cup {"trading_paused"}, !.trading_paused = FALSE,
               !.emergency_stop_active = FALSE]

\* resume_trading: its assignment; the read of self.violations that follows
\* raises while "violations" is unassigned
resume_trading(sm) ==
    [sm EXCEPT !.assigned = @ \cup {"trading_paused"}, !.trading_paused = FALSE]

\* _check_post_trade_safety from its consecutive-loss test on (the
\* execution-time rule only warns)
check_consecutive_losses(sm) ==
    IF sm.consecutive_losses >= ConsecutiveLossesThreshold
    THEN pause_trading(record_violation(sm, "pause_trading", ""), "execution_time")
    ELSE sm

\* _check_post_trade_safety up to its first sleep or its end
check_post_trade_safety(sm, profit) ==
    IF Abs(sm.daily_pnl) >= MaxDailyLossUsd * Milli
    THEN trigger_emergency_stop(sm)
    ELSE IF profit < 0 /\ Abs(profit) >= MaxSingleTradeLossUsd * Milli
    THEN pause_trading(record_violation(sm, "pause_trading", ""), "consecutive_losses")
    ELSE check_consecutive_losses(sm)

\* record_trade_result once self.metrics could be read
record_trade_result(sm, profit) ==
    [sm EXCEPT !.total_trades_today = @ + 1,
               !.daily_pnl = @ + profit,
               !.consecutive_losses = IF profit < 0 THEN @ + 1 ELSE 0,
               !.results = @ + 1,
               !.tasks = Append(@, [kind |-> "post_trade_check", profit |-> profit])]

\* the SafetyManager after check_safety_before_trade returned `result`: a
\* price deviation and a spread anomaly are recorded as violations whose
\* action restricts the pair
after_safety_check(sm, o, result) ==
    IF result.reason \in {"Price deviation exceeds safety threshold", "Spread anomaly detected"}
    THEN record_violation(sm, "restrict_pair", o.symbol)
    ELSE sm

CheckSafetyBeforeTrade(o) ==
    LET result == check_safety_before_trade(safety_attributes, o, min_profit_threshold)
    IN  /\ component = "safety_check"
        /\ safety_check' = [called |-> TRUE, opportunity |-> o, result |-> result]
        /\ safety_attributes' = after_safety_check(safety_attributes, o, result)
    /\ UNCHANGED <<component, day_changed, scored, scannerVars, engineVars,
                   botVars, trading_enabled, enable_trading_returned, trades, active_trades,
                   completed_trades, venue_orders, status_log>>

\* a call of _trigger_emergency_stop
TriggerEmergencyStop ==
    /\ component = "safety_check"
    /\ safety_attributes' = trigger_emergency_stop(safety_attributes)
    /\ UNCHANGED <<component, safety_check, day_changed, scored, scannerVars, engineVars,
                   botVars, trading_enabled, enable_trading_returned, trades, active_trades,
                   completed_trades, venue_orders, status_log>>

\* reset_emergency_stop; it raises, changing nothing, while the flag is unassigned
ResetEmergencyStop ==
    /\ component = "safety_check"
    /\ "emergency_stop_active" \in safety_attributes.assigned
    /\ safety_attributes.emergency_stop_active
    /\ safety_attributes' = [safety_attributes EXCEPT !.emergency_stop_active = FALSE]
    /\ UNCHANGED <<component, safety_check, day_changed, scored, scannerVars, engineVars,
                   botVars, trading_enabled, enable_trading_returned, trades, active_trades,
                   completed_trades, venue_orders, status_log>>

\* a call of _pause_trading from outside, up to its sleep
PauseTrading ==
    /\ component = "safety_check"
    /\ safety_attributes.pauses < MaxPauses
    /\ safety_attributes' = pause_trading(safety_attributes, "end")
    /\ UNCHANGED <<component, safety_check, day_changed, scored, scannerVars, engineVars,
                   botVars, trading_enabled, enable_trading_returned, trades, active_trades,
                   completed_trades, venue_orders, status_log>>

\* a call of resume_trading by hand
ResumeTrading ==
    /\ component = "safety_check"
    /\ safety_attributes' = resume_trading(safety_attributes)
    /\ UNCHANGED <<component, safety_check, day_changed, scored, scannerVars, engineVars,
                   botVars, trading_enabled, enable_trading_returned, trades, active_trades,
                   completed_trades, venue_orders, status_log>>

\* 300 seconds after it began, the oldest sleep of _pause_trading ends: the
\* coroutine resumes trading if trading is paused, returns, and its caller
\* goes on, unless resume_trading raised
PauseTimerFires ==
    LET woken == Head(safety_attributes.sleeping)
        awake == [safety_attributes EXCEPT !.sleeping = Tail(@)]
        resumed == IF awake.trading_paused THEN resume_trading(awake) ELSE awake
    IN  /\ component = "safety_check"
        /\ safety_attributes.sleeping # <<>>
        /\ safety_attributes' =
               IF /\ woken.then = "consecutive_losses"
                  /\ (awake.trading_paused => "violations" \in awake.assigned)
               THEN check_consecutive_losses(resumed)
               ELSE resumed
    /\ UNCHANGED <<component, safety_check, day_changed, scored, scannerVars, engineVars,
                   botVars, trading_enabled, enable_trading_returned, trades, active_trades,
                   completed_trades, venue_orders, status_log>>

\* clear_restriction; it raises, changing nothing, while the list it reads
\* is unassigned
ClearRestriction(restriction_type, identifier) ==
    /\ component = "safety_check"
    /\ safety_attributes' =
           IF restriction_type = "pair"
           THEN IF "restricted_pairs" \in safety_attributes.assigned
                THEN [safety_attributes EXCEPT !.restricted_pairs = @ \ {identifier}]
                ELSE safety_attributes
           ELSE IF "restricted_exchanges" \in safety_attributes.assigned
                THEN [safety_attributes EXCEPT !.restricted_exchanges = @ \ {identifier}]
                ELSE safety_attributes
    /\ UNCHANGED <<component, safety_check, day_changed, scored, scannerVars, engineVars,
                   botVars, trading_enabled, enable_trading_returned, trades, active_trades,
                   completed_trades, venue_orders, status_log>>

\* reset_daily_metrics; it raises at its first line while "metrics" is unassigned
ResetDailyMetrics ==
    /\ component = "safety_check"
    /\ safety_attributes' =
           IF "metrics" \in safety_attributes.assigned
           THEN [safety_attributes EXCEPT !.daily_pnl = 0, !.consecutive_losses = 0,
                                          !.total_trades_today = 0]
           ELSE safety_attributes
    /\ UNCHANGED <<component, safety_check, day_changed, scored, scannerVars, engineVars,
                   botVars, trading_enabled, enable_trading_returned, trades, active_trades,
                   completed_trades, venue_orders, status_log>>

\* record_trade_result; it raises at its first line while "metrics" is unassigned
RecordTradeResult(profit) ==
    /\ component = "safety_check"
    /\ safety_attributes.results < MaxTradeResults
    /\ safety_attributes' =
           IF "metrics" \in safety_attributes.assigned
           THEN record_trade_result(safety_attributes, profit)
           ELSE safety_attributes
    /\ UNCHANGED <<component, safety_check, day_changed, scored, scannerVars, engineVars,
                   botVars, trading_enabled, enable_trading_returned, trades, active_trades,
                   completed_trades, venue_orders, status_log>>

\* the event loop runs the oldest task made by asyncio.create_task, up to
\* its first sleep or its end
SafetyTaskRuns ==
    LET task == Head(safety_attributes.tasks)
        sm == [safety_attributes EXCEPT !.tasks = Tail(@)]
    IN  /\ component = "safety_check"
        /\ safety_attributes.tasks # <<>>
        /\ safety_attributes' = IF task.kind = "pause"
                                THEN pause_trading(sm, "end")
                                ELSE check_post_trade_safety(sm, task.profit)
    /\ UNCHANGED <<component, safety_check, day_changed, scored, scannerVars, engineVars,
                   botVars, trading_enabled, enable_trading_returned, trades, active_trades,
                   completed_trades, venue_orders, status_log>>

InitSafetyCheck ==
    /\ component = "safety_check"
    /\ safety_attributes = SafetyAttributesInit
    /\ safety_check = NotChecked
    /\ day_changed = FALSE
    /\ scored = NotScored
    /\ trading_enabled = TRUE
    /\ enable_trading_returned = "none"
    /\ trades = [t \in TradeIds |-> NoTrade]
    /\ active_trades = {}
    /\ completed_trades = <<>>
    /\ venue_orders = {}
    /\ status_log = [t \in TradeIds |-> <<>>]
    /\ placed_amount = [t \in TradeIds |-> [buy |-> 0, sell |-> 0]]
    /\ circuit_breaker_enabled = TRUE
    /\ safety_manager = SafetyManagerInit
    /\ total_trades = 0
    /\ successful_trades = 0
    /\ total_profit_usd = 0
    /\ shutdown = FALSE
    /\ recorded = 0
    /\ breaker_alert = FALSE
    /\ notified = [t \in TradeIds |-> 0]
    /\ loss_run = 0
    /\ reset_called = FALSE
    /\ circuit_breaker_triggered = FALSE
    /\ daily_stats = DailyStatsInit
    /\ emergency_cancel = "idle"
    /\ order_book_depth_configured = FALSE
    /\ ScannerIdle

\* the operations of a SafetyManager as __init__ builds it
NextSafetyCheck ==
    \/ \E o \in SafetyCheckOpportunities : CheckSafetyBeforeTrade(o)
    \/ TriggerEmergencyStop
    \/ ResetEmergencyStop
    \/ PauseTrading
    \/ ResumeTrading
    \/ PauseTimerFires
    \/ \E restriction_type \in {"pair", "exchange"}, identifier \in {"BTC/USDT", "binance"} :
          ClearRestriction(restriction_type, identifier)
    \/ ResetDailyMetrics
    \/ \E profit \in TradeResults : RecordTradeResult(profit)

SpecSafetyCheck == InitSafetyCheck /\ [][NextSafetyCheck]_vars

\* an opportunity the check allows, one whose prices deviate and one whose
\* spread is anomalous
AssignedOpportunities ==
    {o \in SafetyCheckOpportunities :
        <<o.buy_price, o.sell_price, o.potential_profit_pct>> \in
            {<<45000, 45100>> \o <<150>>, <<45000, 48000>> \o <<150>>, <<45000, 45100>> \o <<2200>>}}

InitSafetyAssigned ==
    /\ component = "safety_check"
    /\ safety_attributes = SafetyAttributesAssigned
    /\ safety_check = NotChecked
    /\ day_changed = FALSE
    /\ scored = NotScored
    /\ trading_enabled = TRUE
    /\ enable_trading_returned = "none"
    /\ trades = [t \in TradeIds |-> NoTrade]
    /\ active_trades = {}
    /\ completed_trades = <<>>
    /\ venue_orders = {}
    /\ status_log = [t \in TradeIds |-> <<>>]
    /\ placed_amount = [t \in TradeIds |-> [buy |-> 0, sell |-> 0]]
    /\ circuit_breaker_enabled = TRUE
    /\ safety_manager = SafetyManagerInit
    /\ total_trades = 0
    /\ successful_trades = 0
    /\ total_profit_usd = 0
    /\ shutdown = FALSE
    /\ recorded = 0
    /\ breaker_alert = FALSE
    /\ notified = [t \in TradeIds |-> 0]
    /\ loss_run = 0
    /\ reset_called = FALSE
    /\ circuit_breaker_triggered = FALSE
    /\ daily_stats = DailyStatsInit
    /\ emergency_cancel = "idle"
    /\ order_book_depth_configured = FALSE
    /\ ScannerIdle

\* the operations of a SafetyManager with its attributes assigned, and the
\* tasks they create
NextSafetyAssigned ==
    \/ \E o \in AssignedOpportunities : CheckSafetyBeforeTrade(o)
    \/ TriggerEmergencyStop
    \/ ResetEmergencyStop
    \/ PauseTrading
    \/ ResumeTrading
    \/ PauseTimerFires
    \/ ClearRestriction("pair", "BTC/USDT")
    \/ ResetDailyMetrics
    \/ \E profit \in TradeResults : RecordTradeResult(profit)
    \/ SafetyTaskRuns

SpecSafetyAssigned == InitSafetyAssigned /\ [][NextSafetyAssigned]_vars

\* ------------------------------------------------------------------ claims

\* C1: with circuit_breaker_enabled, once the daily P&L is below -max_daily_loss_usd
\* and no deactivate_circuit_breaker call was made since, no execute_arbitrage_trade
\* call creates a trade (so none places an order).
C1_DeniedBelowDailyLossLimit ==
    [][(circuit_breaker_enabled /\ Breached(safety_manager) /\ ~reset_called)
          => (total_trades' = total_trades /\ active_trades' \subseteq active_trades)]_vars

\* C2: with circuit_breaker_enabled, the consecutive-loss counter equals the number of
\* record_loss calls made since the last record_profit call (or manual reset), so a
\* record_profit always brings it to 0, and once that number reaches
\* max_consecutive_losses the circuit breaker is active.
C2_ConsecutiveLossesTrip ==
    circuit_breaker_enabled =>
        /\ safety_manager.consecutive_losses = loss_run
        /\ loss_run >= MaxConsecutiveLosses => safety_manager.circuit_breaker_active

\* C2 witness: the breaker tripped by max_consecutive_losses losses alone
C2_Witness ==
    /\ component = "safety"
    /\ loss_run = MaxConsecutiveLosses
    /\ ~Breached(safety_manager)
    /\ safety_manager.circuit_breaker_active

\* C3: an active circuit breaker becomes inactive only in a deactivate_circuit_breaker
\* step; record_profit, record_loss, enable_trading, disable_trading and the steps of
\* trade execution leave it active.
C3_BreakerStaysUntilManualReset ==
    [][(safety_manager.circuit_breaker_active /\ ~safety_manager'.circuit_breaker_active)
          => DeactivateCircuitBreaker]_vars

\* C3 witness: a trade completed and its profit was recorded with the breaker still active
C3_Witness ==
    /\ safety_manager.circuit_breaker_active
    /\ loss_run = 0
    /\ successful_trades > 0

\* C4: an execute_arbitrage_trade call made while trading is disabled or the circuit
\* breaker is active creates no trade, places no order and leaves active_trades,
\* completed_trades, total_trades and the SafetyManager counters unchanged, whatever
\* enable_trading / disable_trading calls and task steps came before it.
C4_DeniedCallChangesNothing ==
    [][((\E buy \in OppBuyPrices, sell \in OppSellPrices,
             max_quantity \in OppMaxQuantities, usd \in DynamicSizesUsd :
            ExecuteArbitrageTrade(buy, sell, max_quantity, usd))
        /\ (~trading_enabled \/ safety_manager.circuit_breaker_active))
          => UNCHANGED <<trades, active_trades, completed_trades, total_trades,
                         successful_trades, total_profit_usd, safety_manager,
                         venue_orders, notified, status_log>>]_vars

\* C4 witness: a call was denied by the circuit breaker while another trade was in flight
C4_Witness ==
    /\ breaker_alert
    /\ safety_manager.circuit_breaker_active
    /\ active_trades # {}

\* C5: every trade in completed_trades had exactly one record_profit or record_loss
\* call made for it, and no trade ever has more than one.
C5_NotifiedExactlyOnce ==
    /\ \A t \in TradeIds : notified[t] <= 1
    /\ \A i \in 1..Len(completed_trades) : notified[completed_trades[i]] = 1

\* position of a status in the life of a trade (both executors)
StatusRank(status) ==
    CASE status = "PENDING" -> 0
      [] status \in {"EXECUTING_BUY", "EXECUTING"} -> 1
      [] status = "BUY_FILLED" -> 2
      [] status = "EXECUTING_SELL" -> 3
      [] status = "SELL_FILLED" -> 4
      [] OTHER -> 5

\* C6: the statuses assigned to a trade, in order of assignment, strictly advance:
\* PENDING, then the executing states, then at most one of COMPLETED, FAILED,
\* CANCELLED, PARTIALLY_FILLED; nothing is assigned after a final status.
C6_StatusOnlyAdvances ==
    \A t \in TradeIds :
       \A i \in 1..Len(status_log[t]) :
          \A j \in 1..Len(status_log[t]) :
             i < j => StatusRank(status_log[t][i]) < StatusRank(status_log[t][j])

\* C6 witness: a trade of the two-leg executor that timed out with one leg filled
C6_Witness ==
    /\ component = "engine"
    /\ \E t \in TradeIds :
          /\ trades[t].timed_out
          /\ status_log[t] = <<"PENDING", "EXECUTING", "PARTIALLY_FILLED">>

\* C7: a FAILED trade of the two-leg executor whose placement tasks have both ended,
\* and whose cancel requests the venue honoured, has no order open on a venue.
C7_NoOpenOrderAfterFailure ==
    \A t \in TradeIds :
       (/\ component = "engine"
        /\ trades[t].pc = "done"
        /\ trades[t].status = "FAILED"
        /\ \A s \in Sides : trades[t].tasks[s] # "placing"
        /\ ~trades[t].cancel_refused)
       => \A s \in Sides : <<t, s>> \notin venue_orders

\* C8: when the sell-leg place_order returns no order or raises, the trade ends FAILED
\* and successful_trades and total_profit_usd do not change.
C8_SellFailureFailsTrade ==
    [][\A t \in TradeIds :
          (~shutdown /\ trades[t].pc = "place_sell"
             /\ (PlaceSellReturns(t, "none") \/ PlaceSellReturns(t, "raise")))
          => /\ trades'[t].status = "FAILED"
             /\ successful_trades' = successful_trades
             /\ total_profit_usd' = total_profit_usd]_vars

\* the classification the timeout is claimed to make, from which legs have fills
ClaimedTimeoutStatus(buy_filled, sell_filled) ==
    IF buy_filled /\ sell_filled THEN "COMPLETED"
    ELSE IF buy_filled \/ sell_filled THEN "PARTIALLY_FILLED"
    ELSE "CANCELLED"

\* C9: a trade ended by the order timeout is PARTIALLY_FILLED if exactly one leg is
\* filled, CANCELLED if neither is, COMPLETED if both are; "filled" read either as
\* having any fill or as being fully filled.
C9_TimeoutClassification ==
    \A t \in TradeIds :
       (component = "engine" /\ trades[t].pc = "done" /\ trades[t].timed_out)
       => \/ trades[t].status =
                ClaimedTimeoutStatus(trades[t].orders["buy"].filled_amount > 0,
                                     trades[t].orders["sell"].filled_amount > 0)
          \/ trades[t].status =
                ClaimedTimeoutStatus(trades[t].orders["buy"].status = "FILLED",
                                     trades[t].orders["sell"].status = "FILLED")

\* C10: a trade ended by the order timeout with the buy leg fully filled and the sell
\* leg unfilled is PARTIALLY_FILLED, and one loss of the size of the buy notional
\* (filled quantity times price) has been recorded for it.
C10_UnhedgedBuyRecordedAsLoss ==
    \A t \in TradeIds :
       (/\ component = "engine"
        /\ trades[t].pc = "done"
        /\ trades[t].timed_out
        /\ trades[t].orders["buy"].status = "FILLED"
        /\ trades[t].orders["sell"].filled_amount = 0)
       => /\ trades[t].status = "PARTIALLY_FILLED"
          /\ notified[t] = 1
          /\ trades[t].actual_profit_usd =
                 -(trades[t].orders["buy"].filled_amount * OrderPrice("buy") * Milli)

\* C11: a trade that ends FAILED has reported to record_loss the full notional
\* of its buy leg (amount times buy price), whatever step failed: the daily
\* P&L drops by exactly amount * buy price on the step that fails the trade.
C11_FailedRecordsBuyNotional ==
    [][\A t \in TradeIds :
          (component = "bot" /\ trades[t].status # "FAILED"
                             /\ trades'[t].status = "FAILED")
          => safety_manager'.daily_profit_loss =
                 safety_manager.daily_profit_loss
                   - trades[t].amount * trades[t].opp_buy_price * Milli]_vars

\* C12: no trade is listed twice in completed_trades, and no trade is in
\* active_trades and completed_trades at once.
C12_HistoryListsEachTradeOnce ==
    /\ \A i, j \in 1..Len(completed_trades) :
          completed_trades[i] = completed_trades[j] => i = j
    /\ \A i \in 1..Len(completed_trades) : completed_trades[i] \notin active_trades

\* C14: the number of in-flight trades never exceeds max_open_positions.
C14_ActiveTradesBounded ==
    Cardinality(active_trades) <= MaxOpenPositions

\* C15: after shutdown was signalled every trade in completed_trades has a
\* terminal status (COMPLETED, FAILED or CANCELLED).
C15_ShutdownRecordsTerminalTrades ==
    shutdown =>
        \A i \in 1..Len(completed_trades) :
            trades[completed_trades[i]].status \in {"COMPLETED", "FAILED", "CANCELLED"}

\* C13: the buy and the sell order placed for one trade carry the same
\* quantity: once both legs were accepted by their venues, the placed buy and
\* sell quantities are equal.
C13_LegsCarrySameQuantity ==
    \A t \in TradeIds :
        (<<t, "buy">> \in venue_orders /\ <<t, "sell">> \in venue_orders)
        => placed_amount[t].buy = placed_amount[t].sell

\* C16: an opportunity is handed to execute_arbitrage_trade at most once: no
\* opportunity object appears twice among the dispatched ones.
C16_DispatchedAtMostOnce ==
    \A i, j \in 1..Len(dispatched) : dispatched[i] = dispatched[j] => i = j

\* the tickers of the example: the first venue quotes (45000, 45010), the
\* second (45120, 45130), each with quantity at the quoted prices, and no
\* other venue has data
ExampleQuotes(tk, first, second) ==
    /\ \A v \in VenueSet \ {first, second} : tk[v] = NoTicker
    /\ tk[first].bid = 45000 /\ tk[first].ask = 45010
    /\ tk[second].bid = 45120 /\ tk[second].ask = 45130
    /\ \E i \in 1..Len(tk[first].asks) :
          tk[first].asks[i][1] = 45010 /\ tk[first].asks[i][2] > 0
    /\ \E i \in 1..Len(tk[second].bids) :
          tk[second].bids[i][1] = 45120 /\ tk[second].bids[i][2] > 0

\* C17: a completed scan cycle emits an opportunity (buy at A, sell at B) only
\* for A # B with B's fee-adjusted bid above A's fee-adjusted ask and a profit
\* percentage of at least min_profit_threshold x 100; for the quotes
\* (45000, 45010) and (45120, 45130) at zero fees it emits exactly one
\* opportunity, buy at the first venue and sell at the second, at threshold
\* 0.1%, and none at threshold 0.5%.
C17_EmittedOnlyIfProfitable ==
    [][last_scan_time' # last_scan_time =>
         /\ \A i \in 1..Len(opportunities') :
               LET o == opportunities'[i]
                   ask == tickers'[o.buy_exchange].ask
                   bid == tickers'[o.sell_exchange].bid
                   fee_adjusted_ask == ask * (1000 + trading_fees[o.buy_exchange])
                   fee_adjusted_bid == bid * (1000 - trading_fees[o.sell_exchange])
               IN  /\ o.buy_exchange # o.sell_exchange
                   /\ o.buy_price = ask /\ o.sell_price = bid
                   /\ fee_adjusted_bid > fee_adjusted_ask
                   /\ (fee_adjusted_bid - fee_adjusted_ask) * 1000
                          >= min_profit_threshold * fee_adjusted_ask
         /\ \A first, second \in VenueSet :
               (/\ ExampleQuotes(tickers', first, second)
                /\ \A v \in VenueSet : trading_fees[v] = 0)
               => /\ min_profit_threshold = 1 =>
                        /\ Len(opportunities') = 1
                        /\ opportunities'[1].buy_exchange = first
                        /\ opportunities'[1].sell_exchange = second
                  /\ min_profit_threshold = 5 => opportunities' = <<>>]_vars

\* a scan of the example quotes at zero fees and threshold 0.1% has just
\* emitted its one opportunity
C17_Witness ==
    /\ last_scan_time > 0
    /\ ExampleQuotes(tickers, "A", "B")
    /\ \A v \in VenueSet : trading_fees[v] = 0
    /\ min_profit_threshold = 1
    /\ Len(opportunities) = 1
    /\ opportunities[1].id = <<last_scan_time, "A", "B">>

\* the quantity of the first n levels of a book
RECURSIVE QuantityOfFirst(_, _)
QuantityOfFirst(book, n) ==
    IF n = 0 THEN 0 ELSE book[n][2] + QuantityOfFirst(book, n - 1)

\* total quantity of the leading ask levels priced at or below buy_price
AskDepthAtOrBelow(book, buy_price) ==
    QuantityOfFirst(book, Cardinality({i \in 1..Len(book) :
                              \A j \in 1..i : book[j][1] <= buy_price}))

\* total quantity of the leading bid levels priced at or above sell_price
BidDepthAtOrAbove(book, sell_price) ==
    QuantityOfFirst(book, Cardinality({i \in 1..Len(book) :
                              \A j \in 1..i : book[j][1] >= sell_price}))

\* C18: every opportunity a completed scan cycle emits has max_quantity > 0,
\* at most the quantity of the buy venue's leading ask levels priced at or
\* below the buy price, at most the quantity of the sell venue's leading bid
\* levels priced at or above the sell price, and max_quantity x buy_price at
\* most max_trade_amount_usd.
C18_MaxQuantityBounded ==
    [][last_scan_time' # last_scan_time =>
         \A i \in 1..Len(opportunities') :
            LET o == opportunities'[i]
            IN  /\ o.max_quantity > 0
                /\ o.max_quantity <= AskDepthAtOrBelow(tickers'[o.buy_exchange].asks,
                                                       o.buy_price)
                /\ o.max_quantity <= BidDepthAtOrAbove(tickers'[o.sell_exchange].bids,
                                                       o.sell_price)
                /\ o.max_quantity * o.buy_price <= MaxTradeAmountUsd * Micro]_vars

\* C19: every trade handed to execution has amount > 0 and amount at most the
\* max_quantity of its opportunity.
C19_AmountWithinMaxQuantity ==
    component = "bot" =>
        \A t \in TradeIds :
            trades[t].status # "NONE" =>
                /\ trades[t].amount > 0
                /\ trades[t].amount <= trades[t].opp_max_quantity

\* C20: for a trade whose two legs both fill, the realized profit is
\* q x sell price - q x buy price - (buy_fee + sell_fee), with q the smaller
\* of the two filled quantities and each fee the fee rate on its leg's notional
\* (an accepted order fills for the quantity it was placed with).
C20_RealizedProfitFormula ==
    \A t \in TradeIds :
        (/\ component = "bot"
         /\ trades[t].status = "COMPLETED"
         /\ <<t, "buy">> \in venue_orders
         /\ <<t, "sell">> \in venue_orders)
        => LET q == Min(placed_amount[t].buy, placed_amount[t].sell)
               buy_fee == placed_amount[t].buy * trades[t].buy_price * TradingFeePerMille
               sell_fee == placed_amount[t].sell * trades[t].sell_price * TradingFeePerMille
           IN  trades[t].actual_profit_usd =
                   q * trades[t].sell_price * Milli - q * trades[t].buy_price * Milli
                     - (buy_fee + sell_fee)

\* C21: whenever the circuit breaker is active, get_status reports
\* trading_enabled = false together with circuit_breaker_active = true.
C21_StatusDisabledWhileBreakerActive ==
    (component = "bot" /\ is_circuit_breaker_active(safety_manager))
    => (get_status.circuit_breaker_active /\ ~get_status.trading_enabled)

\* C22: enable_trading called while the circuit breaker is active returns
\* False and leaves the trading-enabled flag as it was; called while the
\* breaker is inactive it returns True and trading is enabled. Both
\* TradingEngine classes, the one of arbitrage_bot.py through the dashboard route.
C22_EnableTradingRespectsBreaker ==
    [][/\ EnableTradingRoute =>
            IF is_circuit_breaker_active(safety_manager)
            THEN enable_trading_returned' = "False" /\ trading_enabled' = trading_enabled
            ELSE enable_trading_returned' = "True" /\ trading_enabled' = TRUE
       /\ EngineEnableTrading =>
            IF circuit_breaker_triggered
            THEN enable_trading_returned' = "False" /\ trading_enabled' = trading_enabled
            ELSE enable_trading_returned' = "True" /\ trading_enabled' = TRUE]_vars

\* enable_trading was refused while trading was disabled and the breaker
\* active: the flag is still false
C22_Witness ==
    /\ component = "safety"
    /\ enable_trading_returned = "False"
    /\ is_circuit_breaker_active(safety_manager)
    /\ ~trading_enabled

\* ---------------------------------------------------------------------
\* C23: within one day at most max_daily_trades trades are started: once
\* the day's trade count reaches the cap every further opportunity is
\* denied.  A run of the bot stays within one calendar day, so that its
\* todays_trades equals total_trades; ArbitrageBot's engine compares that
\* count with nothing before it starts a trade.
C23_DailyTradesCapped ==
    component = "bot" => total_trades <= MaxDailyTrades

\* ---------------------------------------------------------------------
\* C24: the daily safety state is reset when the wall-clock day differs
\* from the last-reset day: the first outcome processed on a new day is
\* counted against counters that start from zero, so that after it the
\* daily P&L is that outcome alone and the consecutive-loss counter is 1
\* for a loss and 0 for a profit.
C24_FirstOutcomeOfDayStartsFromZero ==
    [][/\ \A l \in RecordedLosses :
            (day_changed /\ RecordLossCall(l))
            => /\ safety_manager'.daily_profit_loss = 0 - Abs(l)
               /\ safety_manager'.consecutive_losses = 1
       /\ \A p \in RecordedProfits :
            (day_changed /\ RecordProfitCall(p))
            => /\ safety_manager'.daily_profit_loss = p
               /\ safety_manager'.consecutive_losses = 0]_vars

\* ---------------------------------------------------------------------
\* C25: _execute_trade aborts a trade whose total estimated slippage
\* exceeds the configured fraction of the opportunity's expected profit:
\* the trade ends FAILED with error "High estimated slippage", no order is
\* placed on either venue by the abort, and none is placed afterwards.
C25_HighSlippageAborts ==
    /\ [][\A t \in EngineTradeIds, buy_book \in AskBooks, sell_book \in BidBooks :
            (/\ EstimateSlippageReturns(t, buy_book, sell_book)
             /\ total_estimated_slippage(trades[t], buy_book, sell_book)
                   > SlippageThresholdPerMille * trades[t].expected_profit_usd)
            => /\ trades'[t].status = "FAILED"
               /\ trades'[t].error_message = "High estimated slippage"
               /\ trades'[t].pc = "done"
               /\ venue_orders' = venue_orders]_vars
    /\ [](\A t \in EngineTradeIds :
            trades[t].error_message = "High estimated slippage"
            => /\ trades[t].status = "FAILED"
               /\ \A s \in Sides : <<t, s>> \notin venue_orders)

C25_Witness ==
    \E t \in EngineTradeIds :
        /\ component = "engine"
        /\ trades[t].error_message = "High estimated slippage"
        /\ trades[t].status = "FAILED"
        /\ trades[t].expected_profit_usd > 0

\* ---------------------------------------------------------------------
\* the scoring weights add up to 1.0 (added in the order of the dict)
weights_sum_to_one(weights) ==
    float_add(float_add(float_add(scoring_weight(weights, 1), scoring_weight(weights, 2)),
                        scoring_weight(weights, 3)),
              scoring_weight(weights, 4)) = float_of(1)

\* C30: _score_opportunity returns a score in [0, 100] for every
\* profit_pct >= 0, max_quantity >= 0, non-negative volatilities and
\* non-negative scoring weights that sum to 1.0.
C30_ScoreWithinRange ==
    (scored.called /\ weights_sum_to_one(scored.weights))
    => /\ ~float_less(scored.score, float_of(0))
       /\ ~float_less(float_of(100), scored.score)

\* ---------------------------------------------------------------------
\* C26: a computation error on one venue pair skips only that pair: at the
\* end of every scan cycle that reaches the search, each venue pair whose
\* own evaluation yields an opportunity has that opportunity in the buffer,
\* whatever happened to the other pairs.
C26_ErrorSkipsOnlyItsPair ==
    [][\A tk \in TickerInputs :
          ScanCycle(tk)
          => \A buy, sell \in VenueSet :
                Emits(tk, buy, sell)
                => \E i \in 1..Len(opportunities') :
                      /\ opportunities'[i].buy_exchange = buy
                      /\ opportunities'[i].sell_exchange = sell
                      /\ opportunities'[i].id[1] = scan_cycles']_vars

\* C27: whenever the controller reads the opportunity buffer it holds at
\* most 100 opportunities, all produced by the most recent scan cycle: no
\* opportunity of an earlier cycle survives a later cycle.
C27_BufferHoldsLatestCycleOnly ==
    /\ Len(opportunities) <= 100
    /\ \A i \in 1..Len(opportunities) : opportunities[i].id[1] = scan_cycles

\* ---------------------------------------------------------------------
\* C28: the completed-trade history is bounded for any number of executed
\* trades: the length of completed_trades never exceeds 1000.
C28_HistoryBounded ==
    Len(completed_trades) <= CompletedHistoryLimit

\* ---------------------------------------------------------------------
\* C29: check_safety_before_trade returns (True, None) for an opportunity
\* with ordinary parameters (0.22% profit on prices 45000/45100) when no
\* emergency stop and no pause is active, no pair or venue is restricted
\* and the daily trade count is under its cap.
C29_OrdinaryOpportunityAllowed ==
    (/\ safety_check.called
     /\ safety_check.opportunity.buy_price = 45000
     /\ safety_check.opportunity.sell_price = 45100
     /\ safety_check.opportunity.potential_profit_pct = 2200
     /\ ~("emergency_stop_active" \in safety_attributes.assigned
            /\ safety_attributes.emergency_stop_active)
     /\ ~("trading_paused" \in safety_attributes.assigned
            /\ safety_attributes.trading_paused)
     /\ safety_attributes.restricted_pairs = {}
     /\ safety_attributes.restricted_exchanges = {}
     /\ safety_attributes.total_trades_today < MaxDailyTrades)
        => safety_check.result = Allowed

\* ---------------------------------------------------------------------
\* C32: under any interleaving of executing trades and safety updates, no
\* buy or sell order is accepted by a venue while the circuit breaker is
\* active.
C32_NoOrderWhileBreakerActive ==
    [][venue_orders' # venue_orders => ~safety_manager.circuit_breaker_active]_vars

\* ---------------------------------------------------------------------
\* C33: a trade whose two orders were both filled completely on their
\* venues before the order timeout elapsed ends COMPLETED, also when a leg
\* was first reported partially filled and completed later.
C33_BothLegsFilledCompletes ==
    \A t \in EngineTradeIds :
        (/\ component = "engine"
         /\ trades[t].pc = "done"
         /\ \A s \in Sides : \/ trades[t].orders[s].status = "FILLED"
                             \/ s \in trades[t].filled_on_venue)
            => trades[t].status = "COMPLETED"

\* ---------------------------------------------------------------------
\* C34: after _handle_timeout no order of the trade is left open on its
\* venue without a cancel attempt: an order still open after the timeout
\* is one whose cancel request the venue refused, a partially filled leg
\* included.
C34_TimeoutCancelsEveryOpenOrder ==
    \A t \in EngineTradeIds : \A s \in Sides :
        (/\ component = "engine"
         /\ trades[t].pc = "done"
         /\ trades[t].timed_out
         /\ <<t, s>> \in venue_orders)
            => trades[t].orders[s].status = "PLACED"

\* final statuses of a trade in either executor
FinalStatuses == {"COMPLETED", "FAILED", "PARTIALLY_FILLED", "CANCELLED"}

InHistory(t) == \E i \in 1..Len(completed_trades) : completed_trades[i] = t

C36_TriggeredBreakerKeepsTradingDisabled ==
    /\ []((component = "engine" /\ circuit_breaker_triggered) => ~trading_enabled)
    /\ [][circuit_breaker_triggered => circuit_breaker_triggered']_vars

\* enable_trading was called after the breaker was triggered, and refused
C36_Witness ==
    /\ component = "engine"
    /\ circuit_breaker_triggered
    /\ enable_trading_returned = "False"
    /\ ~trading_enabled

\* C37: once _trigger_emergency_stop has run, emergency_stop_active stays
\* true through resume_trading, the auto-resume of a pause, clear_restriction,
\* reset_daily_metrics and further trade results, and only
\* reset_emergency_stop clears it; while it is true check_safety_before_trade
\* denies every opportunity with "Emergency stop active".
C37_EmergencyStopHoldsUntilReset ==
    /\ [](/\ component \in {"safety_check"}
          /\ safety_attributes.emergency_stop_active
          => \A o \in SafetyCheckOpportunities :
                check_safety_before_trade(safety_attributes, o, min_profit_threshold)
                    = Denied("Emergency stop active"))
    /\ [][/\ safety_attributes.emergency_stop_active
          /\ ~safety_attributes'.emergency_stop_active
          => ResetEmergencyStop]_vars
    /\ [][/\ safety_attributes.emergency_stop_active
          /\ safety_check' # safety_check
          => safety_check'.result = Denied("Emergency stop active")]_vars

\* the stop was triggered, a pause began and its auto-resume has run, and
\* the check that followed was denied because of the stop
C37_Witness ==
    /\ component = "safety_check"
    /\ safety_attributes.emergency_stop_active
    /\ safety_attributes.pauses > 0
    /\ safety_attributes.sleeping = <<>>
    /\ ~safety_attributes.trading_paused
    /\ safety_check.called
    /\ safety_check.result = Denied("Emergency stop active")

\* C38: a pause started by _pause_trading lasts its full cooldown unless
\* resume_trading is called by hand: when the wake-up of a _pause_trading
\* call ends a pause, the pause it ends is the one that call started, never
\* a later one.
C38_AutoResumeEndsOnlyItsOwnPause ==
    [][/\ PauseTimerFires
       /\ safety_attributes.trading_paused
       /\ ~safety_attributes'.trading_paused
       => Head(safety_attributes.sleeping).pause = safety_attributes.paused_by]_vars

C40_EmitsOnlyWithBookLevels ==
    /\ [][scan_cycles' # scan_cycles =>
            \A i \in 1..Len(opportunities') :
               LET o == opportunities'[i]
                   buy == tickers'[o.buy_exchange]
                   sell == tickers'[o.sell_exchange]
               IN  o.id[1] = scan_cycles' =>
                      /\ \E l \in 1..Len(buy.asks) : buy.asks[l][1] <= buy.ask
                      /\ \E l \in 1..Len(sell.bids) : sell.bids[l][1] >= sell.bid]_vars
    /\ [](component = "scanner" /\ ~levels_delivered =>
             /\ opportunities = <<>>
             /\ pass_queue = <<>>
             /\ dispatched = <<>>)

\* two cycles have delivered a profitable pair of quotes without any book
\* level, the controller has made a pass, and nothing was emitted or dispatched
C40_Witness ==
    /\ component = "scanner"
    /\ scan_cycles = MaxScans
    /\ last_scan_time = MaxScans
    /\ controller_passes > 0
    /\ ~levels_delivered
    /\ tickers["A"] = LowTickerNoBook
    /\ tickers["B"] = HighTickerNoBook
    /\ is_profitable(tickers["A"].ask, tickers["B"].bid, trading_fees["A"],
                     trading_fees["B"], min_profit_threshold)
    /\ opportunities = <<>>
    /\ dispatched = <<>>

====
